---- MODULE Spec2Model ----
(***************************************************************************)
(* Model of the forensics indexing engine (src-tauri/src/index):           *)
(*   - ChangeDetector (watcher.rs): size/mtime/SHA-256 change detection    *)
(*   - InvertedIndex (inverted.rs): buffered writer, commit, snapshot read *)
(*   - MasterIndexer (indexer.rs): scan, change-detect, batched parallel   *)
(*     index_file, batch commits, final commit, cache save                 *)
(*   - the command surface of db/commands.rs that shares the indexer       *)
(***************************************************************************)
EXTENDS Integers, Sequences, FiniteSets, Bags, TLC

\* ------------------------------------------------------------------------
\* Bounds of the model
\* ------------------------------------------------------------------------
NumPaths == 2
MaxTime == 1
MaxEdits == 1
MaxFaults == 1
BatchSize == 1
MaxScans == 3
MaxHits == 2

Paths == 1..NumPaths
Times == 0..MaxTime

\* ------------------------------------------------------------------------
\* The evidence tree
\* ------------------------------------------------------------------------
\* File contents.  "a" and "b" are two texts of the same length, "big" is a
\* file above the per-file size limit, "zip" is a zip archive holding one
\* file of content "a", "zipzip" a zip archive holding one "zip".
Contents == {"a", "b", "big", "zip", "zipzip"}

\* Deeper nestings ("zip3" holds one "zipzip", "zip4" one "zip3") and a zip
\* archive above max_archive_size, used where archives are the subject.
ArchiveContents == {"zip", "zipzip", "zip3", "zip4", "hugezip"}

\* The tree is a map from the paths that exist to what is there.
Dir == [kind |-> "dir", content |-> "", mtime |-> 0]
File(c, m) == [kind |-> "file", content |-> c, mtime |-> m]
RegularFiles == {File(c, m) : c \in Contents, m \in Times}

Exists(f, p) == p \in DOMAIN f
IsFile(f, p) == p \in DOMAIN f /\ f[p].kind = "file"
IsDir(f, p) == p \in DOMAIN f /\ f[p].kind = "dir"

\* HashMap::insert / HashMap::remove, also used for the tree
Insert(map, k, v) == [q \in DOMAIN map \cup {k} |-> IF q = k THEN v ELSE map[q]]
Remove(map, k) == [q \in DOMAIN map \ {k} |-> map[q]]
EmptyMap == [q \in {} |-> 0]

\* metadata.len(), in units of 50 MiB (rounded up)
Size(c) ==
    CASE c = "a" -> 1
      [] c = "b" -> 1
      [] c = "zip" -> 1
      [] c = "zipzip" -> 2
      [] c = "big" -> 3
      [] c = "zip3" -> 2
      [] c = "zip4" -> 2
      [] c = "hugezip" -> 103

\* SHA-256 of the content, as a hex string: injective on Contents
Sha256(c) == <<"sha256", c>>

\* ------------------------------------------------------------------------
\* ChangeDetector
\* ------------------------------------------------------------------------
\* FileState (the path field is the map key)
FileState(v) ==
    [size |-> Size(v.content), modified |-> v.mtime, hash |-> Sha256(v.content)]

DetectResult(ch, c, h) == [change |-> ch, cache |-> c, hashed |-> h]

\* mutant: the entry of a new or modified file is not written by the
\* detection (it would be written once the file is indexed)
detect_change_late(c, f, p, metaOk, hashOk) ==
    IF ~Exists(f, p) THEN
        IF p \in DOMAIN c
        THEN DetectResult("Deleted", Remove(c, p), FALSE)
        ELSE DetectResult("Unchanged", c, FALSE)
    ELSE IF ~metaOk THEN DetectResult("Err", c, FALSE)
    ELSE IF ~IsFile(f, p) THEN DetectResult("Unchanged", c, FALSE)
    ELSE LET size == Size(f[p].content)
             modified == f[p].mtime
         IN  IF p \in DOMAIN c THEN
                 IF c[p].size = size /\ c[p].modified = modified
                 THEN DetectResult("Unchanged", c, FALSE)
                 ELSE IF ~hashOk THEN DetectResult("Err", c, TRUE)
                 ELSE LET hash == Sha256(f[p].content)
                      IN  IF hash = c[p].hash
                          THEN DetectResult("Unchanged",
                                   Insert(c, p, [size |-> size,
                                                 modified |-> modified,
                                                 hash |-> hash]), TRUE)
                          ELSE DetectResult("Modified", c, TRUE)
             ELSE IF ~hashOk THEN DetectResult("Err", c, TRUE)
             ELSE DetectResult("Added", c, TRUE)

\* mutant: Deleted is reported but the entry is not removed
detect_change_keep(c, f, p, metaOk, hashOk) ==
    IF ~Exists(f, p) THEN
        IF p \in DOMAIN c
        THEN DetectResult("Deleted", c, FALSE)
        ELSE DetectResult("Unchanged", c, FALSE)
    ELSE IF ~metaOk THEN DetectResult("Err", c, FALSE)
    ELSE IF ~IsFile(f, p) THEN DetectResult("Unchanged", c, FALSE)
    ELSE LET size == Size(f[p].content)
             modified == f[p].mtime
         IN  IF p \in DOMAIN c THEN
                 IF c[p].size = size /\ c[p].modified = modified
                 THEN DetectResult("Unchanged", c, FALSE)
                 ELSE IF ~hashOk THEN DetectResult("Err", c, TRUE)
                 ELSE LET hash == Sha256(f[p].content)
                      IN  IF hash = c[p].hash
                          THEN DetectResult("Unchanged",
                                   Insert(c, p, [size |-> size,
                                                 modified |-> modified,
                                                 hash |-> hash]), TRUE)
                          ELSE DetectResult("Modified",
                                   Insert(c, p, [size |-> size,
                                                 modified |-> modified,
                                                 hash |-> hash]), TRUE)
             ELSE IF ~hashOk THEN DetectResult("Err", c, TRUE)
             ELSE DetectResult("Added",
                      Insert(c, p, [size |-> size,
                                    modified |-> modified,
                                    hash |-> Sha256(f[p].content)]), TRUE)

\* mutant: the mtime false positive does not refresh the entry
detect_change_stale(c, f, p, metaOk, hashOk) ==
    IF ~Exists(f, p) THEN
        IF p \in DOMAIN c
        THEN DetectResult("Deleted", Remove(c, p), FALSE)
        ELSE DetectResult("Unchanged", c, FALSE)
    ELSE IF ~metaOk THEN DetectResult("Err", c, FALSE)
    ELSE IF ~IsFile(f, p) THEN DetectResult("Unchanged", c, FALSE)
    ELSE LET size == Size(f[p].content)
             modified == f[p].mtime
         IN  IF p \in DOMAIN c THEN
                 IF c[p].size = size /\ c[p].modified = modified
                 THEN DetectResult("Unchanged", c, FALSE)
                 ELSE IF ~hashOk THEN DetectResult("Err", c, TRUE)
                 ELSE LET hash == Sha256(f[p].content)
                      IN  IF hash = c[p].hash
                          THEN DetectResult("Unchanged", c, TRUE)
                          ELSE DetectResult("Modified",
                                   Insert(c, p, [size |-> size,
                                                 modified |-> modified,
                                                 hash |-> hash]), TRUE)
             ELSE IF ~hashOk THEN DetectResult("Err", c, TRUE)
             ELSE DetectResult("Added",
                      Insert(c, p, [size |-> size,
                                    modified |-> modified,
                                    hash |-> Sha256(f[p].content)]), TRUE)

\* ChangeDetector::detect_change.  c is the cache, f the file system, p the
\* path; metaOk / hashOk are the outcomes of fs::metadata and of the read in
\* calculate_hash.  hashed tells whether calculate_hash was called.
detect_change(c, f, p, metaOk, hashOk) ==
    IF ~Exists(f, p) THEN
        IF p \in DOMAIN c
        THEN DetectResult("Deleted", Remove(c, p), FALSE)
        ELSE DetectResult("Unchanged", c, FALSE)
    ELSE IF ~metaOk THEN DetectResult("Err", c, FALSE)
    ELSE IF ~IsFile(f, p) THEN DetectResult("Unchanged", c, FALSE)
    ELSE LET size == Size(f[p].content)
             modified == f[p].mtime
         IN  IF p \in DOMAIN c THEN
                 IF c[p].size = size /\ c[p].modified = modified
                 THEN DetectResult("Unchanged", c, FALSE)
                 ELSE IF ~hashOk THEN DetectResult("Err", c, TRUE)
                 ELSE LET hash == Sha256(f[p].content)
                      IN  IF hash = c[p].hash
                          THEN DetectResult("Unchanged",
                                   Insert(c, p, [size |-> size,
                                                 modified |-> modified,
                                                 hash |-> hash]), TRUE)
                          ELSE DetectResult("Modified",
                                   Insert(c, p, [size |-> size,
                                                 modified |-> modified,
                                                 hash |-> hash]), TRUE)
             ELSE IF ~hashOk THEN DetectResult("Err", c, TRUE)
             ELSE DetectResult("Added",
                      Insert(c, p, [size |-> size,
                                    modified |-> modified,
                                    hash |-> Sha256(f[p].content)]), TRUE)

\* ChangeDetector::detect_changes: paths.iter().map(detect_change).collect()
\* into a Result: the first Err stops the iteration, the entries written by
\* the calls before it stay.  trace keeps the per-path outcomes reached;
\* changes is the Vec returned when ok.
RECURSIVE detect_changes_from(_, _, _, _, _, _)
detect_changes_from(c, f, paths, metaOk, hashOk, trace) ==
    IF paths = <<>> THEN [ok |-> TRUE, cache |-> c, trace |-> trace]
    ELSE LET p == Head(paths)
             r == detect_change(c, f, p, metaOk[p], hashOk[p])
             t == Append(trace, [path |-> p, change |-> r.change,
                                 hashed |-> r.hashed])
         IN  IF r.change = "Err"
             THEN [ok |-> FALSE, cache |-> r.cache, trace |-> t]
             ELSE detect_changes_from(r.cache, f, Tail(paths), metaOk, hashOk, t)

detect_changes(c, f, paths, metaOk, hashOk) ==
    detect_changes_from(c, f, paths, metaOk, hashOk, <<>>)

\* ------------------------------------------------------------------------
\* File contents byte by byte: FileTypeDetector and FileCategory::from_mime
\* ------------------------------------------------------------------------
\* A byte string is a sequence of tokens, one per byte: a printable ASCII
\* character stands for itself, "LF" "CR" "TAB" "NUL" for those control
\* characters, "xHH" for any other byte.  Strings of the program are such
\* sequences too (Chars).

\* the byte strings FileTypeDetector::identify_type looks for, by name
Magic(name) ==
    CASE name = "SQLite format 3" ->
             <<"S", "Q", "L", "i", "t", "e", " ", "f", "o", "r", "m", "a",
             "t", " ", "3", "NUL">>
      [] name = "leveldb/" -> <<"l", "e", "v", "e", "l", "d", "b", "/">>
      [] name = "PK" -> <<"P", "K", "x03", "x04">>
      [] name = "[Content_Types].xml" ->
             <<"[", "C", "o", "n", "t", "e", "n", "t", "_", "T", "y", "p",
             "e", "s", "]", ".", "x", "m", "l">>
      [] name = "xl/" -> <<"x", "l", "/">>
      [] name = "word/" -> <<"w", "o", "r", "d", "/">>
      [] name = "%PDF" -> <<"%", "P", "D", "F">>
      [] name = "PAR1" -> <<"P", "A", "R", "1">>
      [] name = "PNG" -> <<"x89", "P", "N", "G", "CR", "LF", "x1A", "LF">>
      [] name = "JPEG" -> <<"xFF", "xD8">>
      [] name = "GIF87a" -> <<"G", "I", "F", "8", "7", "a">>
      [] name = "GIF89a" -> <<"G", "I", "F", "8", "9", "a">>
      [] name = "RIFF" -> <<"R", "I", "F", "F">>
      [] name = "WEBP" -> <<"W", "E", "B", "P">>
      [] name = "<?xml" -> <<"<", "?", "x", "m", "l">>
      [] name = "ELF" -> <<"x7F", "E", "L", "F">>
      [] name = "FEEDFACE" -> <<"xFE", "xED", "xFA", "xCE">>
      [] name = "FEEDFACF" -> <<"xFE", "xED", "xFA", "xCF">>
      [] name = "CAFEBABE" -> <<"xCA", "xFE", "xBA", "xBE">>
      [] name = "MZ" -> <<"M", "Z">>

\* a string of the program as the sequence of its characters
Chars(str) ==
    CASE str = "application/octet-stream" -> <<"a", "p", "p", "l", "i", "c",
             "a", "t", "i", "o", "n", "/", "o", "c", "t", "e", "t", "-", "s",
             "t", "r", "e", "a", "m">>
      [] str = "application/vnd.sqlite3" -> <<"a", "p", "p", "l", "i", "c",
             "a", "t", "i", "o", "n", "/", "v", "n", "d", ".", "s", "q", "l",
             "i", "t", "e", "3">>
      [] str = "application/x-leveldb" -> <<"a", "p", "p", "l", "i", "c",
             "a", "t", "i", "o", "n", "/", "x", "-", "l", "e", "v", "e", "l",
             "d", "b">>
      [] str = "application/vnd.openxmlformats-officedocument.spreadsheetml.sheet" ->
             <<"a", "p", "p", "l", "i", "c", "a", "t", "i", "o", "n", "/",
             "v", "n", "d", ".", "o", "p", "e", "n", "x", "m", "l", "f", "o",
             "r", "m", "a", "t", "s", "-", "o", "f", "f", "i", "c", "e", "d",
             "o", "c", "u", "m", "e", "n", "t", ".", "s", "p", "r", "e", "a",
             "d", "s", "h", "e", "e", "t", "m", "l", ".", "s", "h", "e", "e",
             "t">>
      [] str = "application/vnd.openxmlformats-officedocument.wordprocessingml.document" ->
             <<"a", "p", "p", "l", "i", "c", "a", "t", "i", "o", "n", "/",
             "v", "n", "d", ".", "o", "p", "e", "n", "x", "m", "l", "f", "o",
             "r", "m", "a", "t", "s", "-", "o", "f", "f", "i", "c", "e", "d",
             "o", "c", "u", "m", "e", "n", "t", ".", "w", "o", "r", "d", "p",
             "r", "o", "c", "e", "s", "s", "i", "n", "g", "m", "l", ".", "d",
             "o", "c", "u", "m", "e", "n", "t">>
      [] str = "application/zip" -> <<"a", "p", "p", "l", "i", "c", "a", "t",
             "i", "o", "n", "/", "z", "i", "p">>
      [] str = "application/pdf" -> <<"a", "p", "p", "l", "i", "c", "a", "t",
             "i", "o", "n", "/", "p", "d", "f">>
      [] str = "application/vnd.apache.parquet" -> <<"a", "p", "p", "l", "i",
             "c", "a", "t", "i", "o", "n", "/", "v", "n", "d", ".", "a", "p",
             "a", "c", "h", "e", ".", "p", "a", "r", "q", "u", "e", "t">>
      [] str = "image/png" -> <<"i", "m", "a", "g", "e", "/", "p", "n",
             "g">>
      [] str = "image/jpeg" -> <<"i", "m", "a", "g", "e", "/", "j", "p", "e",
             "g">>
      [] str = "image/gif" -> <<"i", "m", "a", "g", "e", "/", "g", "i",
             "f">>
      [] str = "image/webp" -> <<"i", "m", "a", "g", "e", "/", "w", "e", "b",
             "p">>
      [] str = "application/json" -> <<"a", "p", "p", "l", "i", "c", "a",
             "t", "i", "o", "n", "/", "j", "s", "o", "n">>
      [] str = "application/xml" -> <<"a", "p", "p", "l", "i", "c", "a", "t",
             "i", "o", "n", "/", "x", "m", "l">>
      [] str = "text/csv" -> <<"t", "e", "x", "t", "/", "c", "s", "v">>
      [] str = "application/x-executable" -> <<"a", "p", "p", "l", "i", "c",
             "a", "t", "i", "o", "n", "/", "x", "-", "e", "x", "e", "c", "u",
             "t", "a", "b", "l", "e">>
      [] str = "application/x-mach-binary" -> <<"a", "p", "p", "l", "i", "c",
             "a", "t", "i", "o", "n", "/", "x", "-", "m", "a", "c", "h", "-",
             "b", "i", "n", "a", "r", "y">>
      [] str = "application/x-dosexec" -> <<"a", "p", "p", "l", "i", "c",
             "a", "t", "i", "o", "n", "/", "x", "-", "d", "o", "s", "e", "x",
             "e", "c">>
      [] str = "text/plain" -> <<"t", "e", "x", "t", "/", "p", "l", "a", "i",
             "n">>
      [] str = "sqlite" -> <<"s", "q", "l", "i", "t", "e">>
      [] str = "x-sqlite" -> <<"x", "-", "s", "q", "l", "i", "t", "e">>
      [] str = "pdf" -> <<"p", "d", "f">>
      [] str = "vnd.openxmlformats" -> <<"v", "n", "d", ".", "o", "p", "e",
             "n", "x", "m", "l", "f", "o", "r", "m", "a", "t", "s">>
      [] str = "msword" -> <<"m", "s", "w", "o", "r", "d">>
      [] str = "vnd.ms-excel" -> <<"v", "n", "d", ".", "m", "s", "-", "e",
             "x", "c", "e", "l">>
      [] str = "text/" -> <<"t", "e", "x", "t", "/">>
      [] str = "image/" -> <<"i", "m", "a", "g", "e", "/">>
      [] str = "audio/" -> <<"a", "u", "d", "i", "o", "/">>
      [] str = "video/" -> <<"v", "i", "d", "e", "o", "/">>
      [] str = "zip" -> <<"z", "i", "p">>
      [] str = "gzip" -> <<"g", "z", "i", "p">>
      [] str = "tar" -> <<"t", "a", "r">>
      [] str = "leveldb" -> <<"l", "e", "v", "e", "l", "d", "b">>
      [] str = "x-leveldb" -> <<"x", "-", "l", "e", "v", "e", "l", "d",
             "b">>
      [] str = "vnd.openxmlformats-officedocument.spreadsheetml" -> <<"v",
             "n", "d", ".", "o", "p", "e", "n", "x", "m", "l", "f", "o", "r",
             "m", "a", "t", "s", "-", "o", "f", "f", "i", "c", "e", "d", "o",
             "c", "u", "m", "e", "n", "t", ".", "s", "p", "r", "e", "a", "d",
             "s", "h", "e", "e", "t", "m", "l">>
      [] str = " file" -> <<" ", "f", "i", "l", "e">>
      [] str = "File: " -> <<"F", "i", "l", "e", ":", " ">>
      [] str = "Image: " -> <<"I", "m", "a", "g", "e", ":", " ">>
      [] str = " - " -> <<" ", "-", " ">>
      [] str = "png" -> <<"p", "n", "g">>
      [] str = "txt" -> <<"t", "x", "t">>

Take(s, n) == SubSeq(s, 1, IF n < Len(s) THEN n ELSE Len(s))

StartsWith(s, pre) == Len(s) >= Len(pre) /\ SubSeq(s, 1, Len(pre)) = pre

\* haystack.windows(needle.len()).any(|w| w == needle), str::contains
contains_sequence(haystack, needle) ==
    \E i \in 0..(Len(haystack) - Len(needle)) :
        SubSeq(haystack, i + 1, i + Len(needle)) = needle

\* std::str::from_utf8(bytes).is_ok(): of the bytes >= 0x80 the files of the
\* model hold, each run starts with a byte that no UTF-8 encoding starts
\* with, so a string holding one is not UTF-8
from_utf8_ok(bytes) ==
    LET HighBytes == {"x89", "xFF", "xD8", "xFE", "xED", "xFA", "xCE", "xCF",
                      "xCA", "xBA", "xBE"}
    IN  \A i \in DOMAIN bytes : bytes[i] \notin HighBytes

\* FileTypeDetector::looks_like_csv: at least two lines among the first
\* five, a comma or a tab in the first, and every later line consistent
looks_like_csv(bytes) ==
    LET s == Take(bytes, 1024)
        \* str::lines: the lines without their terminators ("\n" or
        \* "\r\n"); a final terminator does not open a further line
        RECURSIVE lines_from(_)
        lines_from(start) ==
            IF start > Len(s) THEN <<>>
            ELSE LET ends == {i \in start..Len(s) : s[i] = "LF"} \cup {Len(s) + 1}
                     end == CHOOSE i \in ends : \A j \in ends : i <= j
                     raw == SubSeq(s, start, end - 1)
                     line == IF end <= Len(s) /\ raw # <<>> /\ raw[Len(raw)] = "CR"
                             THEN SubSeq(raw, 1, Len(raw) - 1) ELSE raw
                 IN  <<line>> \o lines_from(end + 1)
        lines == Take(lines_from(1), 5)
        Count(l, c) == Cardinality({i \in DOMAIN l : l[i] = c})
        Abs(n) == IF n < 0 THEN -n ELSE n
    IN  /\ from_utf8_ok(s)
        /\ Len(lines) >= 2
        /\ LET first_commas == Count(lines[1], ",")
               first_tabs == Count(lines[1], "TAB")
           IN  /\ first_commas >= 1 \/ first_tabs >= 1
               /\ \A k \in 2..Len(lines) :
                      LET commas == Count(lines[k], ",")
                          tabs == Count(lines[k], "TAB")
                      IN  \/ commas > 0 /\ Abs(commas - first_commas) <= 1
                          \/ tabs > 0 /\ Abs(tabs - first_tabs) <= 1

\* FileTypeDetector::is_text: valid UTF-8 and more than 85% of the bytes
\* ASCII graphic or ASCII whitespace
is_text(bytes) ==
    LET ControlBytes == {"NUL", "x03", "x04", "x1A", "x7F"}
        printable_count ==
            Cardinality({i \in DOMAIN bytes :
                bytes[i] \notin ControlBytes /\ from_utf8_ok(<<bytes[i]>>)})
    IN  /\ from_utf8_ok(bytes)
        /\ 100 * printable_count > 85 * Len(bytes)

\* FileTypeDetector::identify_type, test by test in the order of the code:
\* the pair (mime type, category)
identify_type(bytes) ==
    LET Whitespace == {" ", "TAB", "LF", "x0C", "CR"}
        \* str::trim_start
        trim_start(s) ==
            LET black == {i \in DOMAIN s : s[i] \notin Whitespace}
            IN  IF black = {} THEN <<>>
                ELSE SubSeq(s, CHOOSE i \in black : \A j \in black : i <= j,
                            Len(s))
        first_non_ws == trim_start(bytes)
    IN
    IF bytes = <<>> THEN <<"application/octet-stream", "Binary">>
    ELSE IF StartsWith(bytes, Magic("SQLite format 3"))
    THEN <<"application/vnd.sqlite3", "Database">>
    ELSE IF StartsWith(bytes, Magic("leveldb/"))
    THEN <<"application/x-leveldb", "Database">>
    ELSE IF StartsWith(bytes, Magic("PK"))
    THEN IF Len(bytes) >= 30
              /\ contains_sequence(bytes, Magic("[Content_Types].xml"))
              /\ contains_sequence(bytes, Magic("xl/"))
         THEN <<"application/vnd.openxmlformats-officedocument.spreadsheetml.sheet",
                "Document">>
         ELSE IF Len(bytes) >= 30
                   /\ contains_sequence(bytes, Magic("[Content_Types].xml"))
                   /\ contains_sequence(bytes, Magic("word/"))
         THEN <<"application/vnd.openxmlformats-officedocument.wordprocessingml.document",
                "Document">>
         ELSE <<"application/zip", "Archive">>
    ELSE IF StartsWith(bytes, Magic("%PDF"))
    THEN <<"application/pdf", "Document">>
    ELSE IF StartsWith(bytes, Magic("PAR1"))
    THEN <<"application/vnd.apache.parquet", "StructuredData">>
    ELSE IF Len(bytes) >= 8 /\ StartsWith(bytes, Magic("PNG"))
    THEN <<"image/png", "Media">>
    ELSE IF Len(bytes) >= 8 /\ StartsWith(bytes, Magic("JPEG"))
    THEN <<"image/jpeg", "Media">>
    ELSE IF Len(bytes) >= 8
              /\ (StartsWith(bytes, Magic("GIF87a"))
                  \/ StartsWith(bytes, Magic("GIF89a")))
    THEN <<"image/gif", "Media">>
    ELSE IF Len(bytes) >= 12 /\ StartsWith(bytes, Magic("RIFF"))
              /\ SubSeq(bytes, 9, 12) = Magic("WEBP")
    THEN <<"image/webp", "Media">>
    ELSE IF first_non_ws # <<>> /\ Head(first_non_ws) \in {"{", "["}
              /\ from_utf8_ok(bytes)
    THEN <<"application/json", "StructuredData">>
    ELSE IF Len(bytes) >= 5 /\ from_utf8_ok(Take(bytes, 100))
              /\ (StartsWith(trim_start(Take(bytes, 100)), Magic("<?xml"))
                  \/ StartsWith(trim_start(Take(bytes, 100)), <<"<">>))
    THEN <<"application/xml", "StructuredData">>
    ELSE IF looks_like_csv(bytes)
    THEN <<"text/csv", "StructuredData">>
    ELSE IF StartsWith(bytes, Magic("ELF"))
    THEN <<"application/x-executable", "Binary">>
    ELSE IF StartsWith(bytes, Magic("FEEDFACE"))
              \/ StartsWith(bytes, Magic("FEEDFACF"))
              \/ StartsWith(bytes, Magic("CAFEBABE"))
    THEN <<"application/x-mach-binary", "Binary">>
    ELSE IF StartsWith(bytes, Magic("MZ"))
    THEN <<"application/x-dosexec", "Binary">>
    ELSE IF is_text(bytes) THEN <<"text/plain", "Text">>
    ELSE <<"application/octet-stream", "Binary">>

\* the buffer of FileTypeDetector::detect: the first 512 bytes of the file
DetectBufferSize == 512

\* FileTypeDetector::detect, when the file can be opened and read: the
\* DetectedFileType
detect(bytes) ==
    LET t == identify_type(Take(bytes, DetectBufferSize))
    IN  [mime_type |-> t[1], category |-> t[2]]

\* FileCategory::from_mime, arm by arm in the order of the match
from_mime(mime) ==
    LET m == Chars(mime)
    IN
    IF contains_sequence(m, Chars("sqlite")) \/ contains_sequence(m, Chars("x-sqlite"))
    THEN "Database"
    ELSE IF mime \in {"application/json", "text/json"} THEN "StructuredData"
    ELSE IF mime \in {"application/xml", "text/xml"} THEN "StructuredData"
    ELSE IF mime = "text/csv" THEN "StructuredData"
    ELSE IF mime = "application/vnd.apache.parquet" THEN "StructuredData"
    ELSE IF contains_sequence(m, Chars("pdf")) THEN "Document"
    ELSE IF contains_sequence(m, Chars("vnd.openxmlformats")) THEN "Document"
    ELSE IF contains_sequence(m, Chars("msword")) THEN "Document"
    ELSE IF contains_sequence(m, Chars("vnd.ms-excel")) THEN "Document"
    ELSE IF StartsWith(m, Chars("text/")) THEN "Text"
    ELSE IF StartsWith(m, Chars("image/")) THEN "Media"
    ELSE IF StartsWith(m, Chars("audio/")) THEN "Media"
    ELSE IF StartsWith(m, Chars("video/")) THEN "Media"
    ELSE IF contains_sequence(m, Chars("zip")) \/ contains_sequence(m, Chars("gzip"))
              \/ contains_sequence(m, Chars("tar"))
    THEN "Archive"
    ELSE IF mime \in {"application/octet-stream", "application/x-executable"}
    THEN "Binary"
    ELSE "Unknown"

\* ------------------------------------------------------------------------
\* State
\* ------------------------------------------------------------------------
VARIABLES
    fs,         \* the evidence tree: existing path -> Dir | File
    cache,      \* ChangeDetector.cache: HashMap path -> FileState
    lastCall,   \* the most recent detect_change evaluation: path and outcome
    seen,       \* history: path -> state of the file at the last
                \* detect_change call on it that returned Ok and not Deleted
    hashedAt,   \* history: path -> state of the file at the last
                \* detect_change call on it that hashed it successfully
    edits,      \* number of edits made to the evidence tree so far
    faults      \* number of failed I/O operations so far

VARIABLES
    callers,    \* the command threads that issue index_directory
    pc,         \* caller -> where its index_directory call stands
    files,      \* caller -> the Vec of paths returned by scan_directory
    changes,    \* caller -> the Vec<FileChange> returned by detect_changes
    cur,        \* caller -> number of the batch being processed (from 1)
    w,          \* caller -> path -> state of the worker of that path
    wdoc,       \* caller -> path -> the FileDocument built by the worker
    processed,  \* caller -> files_processed
    result,     \* caller -> outcome of its last index_directory call
    buffer,     \* documents added to the IndexWriter and not yet committed
    committed,  \* documents of the committed segments (what readers see)
    saved,      \* change_cache.bin: the cache as last saved
    rpc,        \* the query command: "idle", "open" (holds a searcher) or
                \* "deep" (in extract_deep)
    snap        \* the documents the open searcher sees

VARIABLES
    quiet,      \* history: no edit of the tree since the last run began
    prev,       \* history: how the last finished run ended
    follow,     \* history: caller -> the run before, if this run follows it
                \* with no edit of the tree in between
    unpacked,   \* history: caller -> this run unpacked an archive
    addedIds    \* history: ids of the documents committed so far

VARIABLES
    xdirs,      \* the archive paths whose extraction directory
                \* "<stem>_unpacked" exists in the evidence tree
    depth,      \* history: path -> how many archives the file there was
                \* unpacked out of (0 for a file put there by hand)
    deepest,    \* history: the largest depth of an archive unpacked by the
                \* indexer so far, -1 when none was
    lastUnpack, \* the most recent direct call of unpack and its outcome
    scans       \* history: number of index_directory runs that returned Ok,
                \* counted up to MaxScans

VARIABLES
    input,      \* the file index_file is called on: its path, its bytes,
                \* whether the indexer has an image preview generator, what
                \* the image crate decodes and what the parsers say
    ipc,        \* where index_file is: "idle" (not called), "detect",
                \* "extract", "add", "done", or "err_*" when it failed
    detected,   \* Option: the DetectedFileType
    image_info, \* Option: the ImageInfo
    extraction, \* Option: the ExtractorOutput after unwrap_or_else
    xerr,       \* history: the extractor returned Err
    file_doc,   \* Option: the FileDocument given to add_document
    files_processed \* the worker's counter (stats.indexed_files)

VARIABLES
    responses,  \* what the index answers: query string -> error or the ids
                \* of the matching documents, best score first
    query,      \* Option: the query given to QueryPlanner::execute
    qresult,    \* Option: the QueryResult
    subresults  \* of a Combined query: the results of its two subqueries

VARIABLES
    trees,      \* the names of the trees of the auxiliary sled database
    listed,     \* Option: what the get_groups call just made returned
    live,       \* history: the (name, color) pairs created and not
                \* deleted since
    dropped     \* history: the (name, color) pairs deleted and not
                \* created again since

VARIABLES
    csv_file,   \* the CSV file given to CsvExtractor::extract, as the csv
                \* reader parses it: the header record and the data records
    csv_output  \* Option: the StructuredData::Csv of the ExtractorOutput

VARIABLES
    lpc,        \* thread -> where it stands in index_directory, lock by lock
    held,       \* mutex -> the threads that hold a guard of it
    pending,    \* call -> Option: what detect_change decided for the path
                \* at hand and has not written to the cache yet
    by_category, \* call -> number of entries counted in its by_category map
    loaded      \* history: the cache ChangeDetector::load read at startup

dvars == <<fs, cache, lastCall, seen, hashedAt, edits, faults>>
ivars == <<callers, pc, files, changes, cur, w, wdoc, processed, result,
           buffer, committed, saved, rpc, snap>>
hvars == <<quiet, prev, follow, unpacked, addedIds>>
avars == <<xdirs, depth, deepest, lastUnpack>>
fvars == <<input, ipc, detected, image_info, extraction, xerr, file_doc,
           files_processed>>
qvars == <<responses, query, qresult, subresults>>
gvars == <<trees, listed, live, dropped>>
cvars == <<csv_file, csv_output>>
lvars == <<lpc, held, pending, by_category, loaded>>
vars == <<dvars, ivars, hvars, avars, scans, fvars, qvars, gvars, cvars,
          lvars>>

NoCall == [path |-> 0, change |-> "none", hashed |-> FALSE]
NoUnpack == [path |-> 0, level |-> 0, ok |-> FALSE, made |-> FALSE]

\* Option values
None == {}
Some(x) == {x}

\* the variables of index_file byte by byte while another part of the
\* program is studied
NoIndexFile ==
    /\ input = [path |-> <<>>, ext |-> "", bytes |-> <<>>,
                has_preview |-> FALSE, image |-> None,
                lib |-> [ok |-> TRUE, summary |-> <<>>]]
    /\ ipc = "idle"
    /\ detected = None
    /\ image_info = None
    /\ extraction = None
    /\ xerr = FALSE
    /\ file_doc = None
    /\ files_processed = 0

\* the query variables while another part of the program is studied
NoQuery ==
    /\ responses = EmptyMap
    /\ query = None
    /\ qresult = None
    /\ subresults = <<>>

\* sled::open on a new directory: the default tree only, no group yet
NoGroups ==
    /\ trees = {<<"__sled__default">>}
    /\ listed = None
    /\ live = {}
    /\ dropped = {}

\* the CSV extractor while another part of the program is studied
NoCsv ==
    /\ csv_file = [headers |-> <<>>, records |-> <<>>]
    /\ csv_output = None

\* the threads and mutexes where they are not looked at one by one
NoLocks ==
    /\ lpc = EmptyMap
    /\ held = EmptyMap
    /\ pending = EmptyMap
    /\ by_category = EmptyMap
    /\ loaded = EmptyMap

\* ------------------------------------------------------------------------
\* The environment: the investigator's tools edit the evidence tree
\* ------------------------------------------------------------------------
CreateFile(p, c, m) ==
    /\ ~Exists(fs, p)
    /\ fs' = Insert(fs, p, File(c, m))

\* new content; the mtime is whatever the writing tool leaves (it may
\* preserve or reset it)
ModifyFile(p, c, m) ==
    /\ IsFile(fs, p)
    /\ c # fs[p].content
    /\ fs' = Insert(fs, p, File(c, m))

TouchFile(p, m) ==
    /\ IsFile(fs, p)
    /\ m # fs[p].mtime
    /\ fs' = Insert(fs, p, File(fs[p].content, m))

DeleteFile(p) ==
    /\ Exists(fs, p)
    /\ fs' = Remove(fs, p)

MakeDir(p) ==
    /\ ~Exists(fs, p)
    /\ fs' = Insert(fs, p, Dir)

\* ------------------------------------------------------------------------
\* I/O failures: an operation of the file system, the index writer or the
\* cache file succeeds (ok) or fails
\* ------------------------------------------------------------------------
Fault(ok) ==
    /\ ok \/ faults < MaxFaults
    /\ faults' = IF ok THEN faults ELSE faults + 1

\* ------------------------------------------------------------------------
\* History kept beside the detector
\* ------------------------------------------------------------------------
\* the history after one detect_change call on p with outcome r, the file
\* system being f
SeenAfter(s, f, p, r) ==
    IF r.change = "Deleted" THEN Remove(s, p)
    ELSE IF r.change # "Err" /\ IsFile(f, p) THEN Insert(s, p, FileState(f[p]))
    ELSE s

HashedAfter(h, f, p, r) ==
    IF r.change = "Deleted" THEN Remove(h, p)
    ELSE IF r.change # "Err" /\ r.hashed THEN Insert(h, p, FileState(f[p]))
    ELSE h

RECURSIVE SeenAfterAll(_, _, _)
SeenAfterAll(s, f, trace) ==
    IF trace = <<>> THEN s
    ELSE SeenAfterAll(SeenAfter(s, f, Head(trace).path, Head(trace)), f, Tail(trace))

RECURSIVE HashedAfterAll(_, _, _)
HashedAfterAll(h, f, trace) ==
    IF trace = <<>> THEN h
    ELSE HashedAfterAll(HashedAfter(h, f, Head(trace).path, Head(trace)), f, Tail(trace))

\* the ascending sequence of the paths of a set
RECURSIVE SortedSeq(_)
SortedSeq(S) ==
    IF S = {} THEN <<>>
    ELSE LET m == CHOOSE x \in S : \A y \in S : x <= y
         IN  <<m>> \o SortedSeq(S \ {m})

\* ------------------------------------------------------------------------
\* InvertedIndex
\* ------------------------------------------------------------------------
Callers == {"c1", "c2"}

\* MasterIndexer::make_doc_id: the first 16 hex digits of SHA-256(path)
make_doc_id(p) == <<"id", p>>

\* FileDocument, by what the index keeps of it
FileDocument(p, v) ==
    [id |-> make_doc_id(p), size |-> Size(v.content), hash |-> Sha256(v.content)]

NoDoc == [id |-> <<"id", 0>>, size |-> 0, hash |-> <<"sha256", "">>]

\* InvertedIndex::add_document: the document goes to the writer's buffer
add_document(buf, doc) == buf (+) SetToBag({doc})

\* mutant: a commit publishes the buffer in place of the older segments
commit_replace(cm, buf) == buf

\* InvertedIndex::commit, when IndexWriter::commit succeeds: the buffered
\* documents become a committed segment beside the earlier ones
commit(cm, buf) == cm (+) buf

\* mutant: the reader also sees the writer's uncommitted buffer
searcher_dirty(cm, buf) == cm (+) buf

\* index.reader()?.searcher(): a snapshot of the committed segments
searcher(cm, buf) == cm

\* InvertedIndex::document_count on a searcher: Searcher::num_docs
num_docs(docs) == BagCardinality(docs)

\* the ids of the documents of a bag
IdsOf(docs) == {d.id : d \in BagToSet(docs)}

\* number of live documents of one id
DocsWithId(docs, id) ==
    LET S == {d \in BagToSet(docs) : d.id = id}
        RECURSIVE Sum(_)
        Sum(T) == IF T = {} THEN 0
                  ELSE LET d == CHOOSE x \in T : TRUE
                       IN  CopiesIn(d, docs) + Sum(T \ {d})
    IN  Sum(S)

\* ------------------------------------------------------------------------
\* ArchiveExtractor with ArchiveSettings::default()
\* ------------------------------------------------------------------------
auto_unpack == TRUE
unpack_to_host == TRUE
max_nesting_level == 3
\* 5 GiB in units of 50 MiB (rounded down)
max_archive_size == 102
\* 100 MiB in units of 50 MiB
MAX_FILE_SIZE == 2

\* The paths of the model: the first NumPaths are the ones the investigator
\* puts files at, the following ones are reached by unpacking only.
AllPaths == 1..(NumPaths + max_nesting_level)

\* Every path but the last carries an archive extension (".zip"); the one
\* file inside the archive at path p is unpacked, in host mode, to
\* "<stem>_unpacked/<name>", which is path p + 1.
is_archive(p) == p < NumPaths + max_nesting_level
UnpackDest(p) == p + 1

IsZip(c) == c \in ArchiveContents
Inner(c) ==
    CASE c = "zip4" -> "zip3"
      [] c = "zip3" -> "zipzip"
      [] c = "zipzip" -> "zip"
      [] OTHER -> "a"

UnpackResult(ok, f, x) == [ok |-> ok, fs |-> f, dirs |-> x]

\* mutant: nothing is ever unpacked
unpack_reject(f, x, p, nesting_level) == UnpackResult(FALSE, f, x)

\* mutant: the nesting level is checked after the extraction directory has
\* been created, and a level equal to the maximum passes
unpack_late(f, x, p, nesting_level) ==
    IF ~Exists(f, p) THEN UnpackResult(FALSE, f, x)
    ELSE IF IsFile(f, p) /\ Size(f[p].content) > max_archive_size
    THEN UnpackResult(FALSE, f, x)
    ELSE IF ~(is_archive(p) \/ (IsFile(f, p) /\ IsZip(f[p].content)))
    THEN UnpackResult(FALSE, f, x)
    ELSE IF nesting_level > max_nesting_level
    THEN UnpackResult(FALSE, f, x \cup {p})
    ELSE IF ~(IsFile(f, p) /\ IsZip(f[p].content))
    THEN UnpackResult(FALSE, f, x \cup {p})
    ELSE IF UnpackDest(p) \notin AllPaths \/ IsDir(f, UnpackDest(p))
    THEN UnpackResult(FALSE, f, x \cup {p})
    ELSE UnpackResult(TRUE,
             Insert(f, UnpackDest(p), File(Inner(f[p].content), MaxTime)),
             x \cup {p})

\* ArchiveExtractor::unpack in host mode: f is the tree, x the set of the
\* archive paths whose extraction directory "<stem>_unpacked" exists.  The
\* result tells whether the call returned Ok, and the tree and the
\* extraction directories after it.  In order: the nesting check, the
\* metadata read, the size check, the format (by extension, else by magic
\* bytes), create_dir_all of the extraction directory, extract_zip (which
\* fails on a file that is no zip archive, and when the entry cannot be
\* created).  Extracted files get the current time as mtime.
unpack(f, x, p, nesting_level) ==
    IF nesting_level >= max_nesting_level THEN UnpackResult(FALSE, f, x)
    ELSE IF ~Exists(f, p) THEN UnpackResult(FALSE, f, x)
    ELSE IF IsFile(f, p) /\ Size(f[p].content) > max_archive_size
    THEN UnpackResult(FALSE, f, x)
    ELSE IF ~(is_archive(p) \/ (IsFile(f, p) /\ IsZip(f[p].content)))
    THEN UnpackResult(FALSE, f, x)
    ELSE IF ~(IsFile(f, p) /\ IsZip(f[p].content))
    THEN UnpackResult(FALSE, f, x \cup {p})
    ELSE IF UnpackDest(p) \notin AllPaths \/ IsDir(f, UnpackDest(p))
    THEN UnpackResult(FALSE, f, x \cup {p})
    ELSE UnpackResult(TRUE,
             Insert(f, UnpackDest(p), File(Inner(f[p].content), MaxTime)),
             x \cup {p})

\* ------------------------------------------------------------------------
\* MasterIndexer::index_directory
\* ------------------------------------------------------------------------
\* scan_directory: the regular files of the tree, in directory order
scan_directory(f) == SortedSeq({p \in AllPaths : IsFile(f, p)})

\* mutant: every classified path is retained, Unchanged ones too
IsToIndex_all(ch) == ch.change \in {"Added", "Modified", "Unchanged"}

\* the filter_map of index_directory: Added(p) | Modified(p) => Some(p)
IsToIndex(ch) == ch.change \in {"Added", "Modified"}

RECURSIVE PathsOf(_)
PathsOf(chs) ==
    IF chs = <<>> THEN <<>> ELSE <<Head(chs).path>> \o PathsOf(Tail(chs))

\* files_to_index: the paths of the Added and Modified changes
files_to_index(chs) == PathsOf(SelectSeq(chs, IsToIndex))

Range(seq) == {seq[i] : i \in DOMAIN seq}

\* files_to_index.chunks(BATCH_SIZE): the number of the chunk holding p
BatchOf(chs, p) ==
    LET fti == files_to_index(chs)
        i == CHOOSE j \in DOMAIN fti : fti[j] = p
    IN  ((i - 1) \div BatchSize) + 1

NumBatches(chs) == (Len(files_to_index(chs)) + BatchSize - 1) \div BatchSize

Finished == {"added", "skipped", "failed", "visible", "lost"}

\* par_iter().for_each has returned for batch k of caller t
BatchDone(t, k) ==
    \A p \in Range(files_to_index(changes[t])) :
        BatchOf(changes[t], p) = k => w[t][p] \in Finished

\* mutant: the chunks are not waited for, any retained path may be taken
MayStart_any(t, p) ==
    /\ pc[t] = "batch"
    /\ p \in Range(files_to_index(changes[t]))
    /\ w[t][p] = "pending"

\* a worker of caller t may take path p: p belongs to the chunk being
\* iterated
MayStart(t, p) ==
    /\ pc[t] = "batch"
    /\ p \in Range(files_to_index(changes[t]))
    /\ BatchOf(changes[t], p) = cur[t]
    /\ w[t][p] = "pending"

\* mutant: no file is too large
TooLarge_never(size) == FALSE

\* the size check of the worker: metadata.len() > MAX_FILE_SIZE
TooLarge(size) == size > MAX_FILE_SIZE

IndexerInit ==
    /\ pc = [t \in Callers |-> "idle"]
    /\ files = [t \in Callers |-> <<>>]
    /\ changes = [t \in Callers |-> <<>>]
    /\ cur = [t \in Callers |-> 0]
    /\ w = [t \in Callers |-> [p \in AllPaths |-> "none"]]
    /\ wdoc = [t \in Callers |-> [p \in AllPaths |-> NoDoc]]
    /\ processed = [t \in Callers |-> 0]
    /\ result = [t \in Callers |-> "none"]
    /\ buffer = EmptyBag
    /\ committed = EmptyBag
    /\ saved = EmptyMap
    /\ rpc = "idle"
    /\ snap = EmptyBag
    /\ quiet = FALSE
    /\ prev = "none"
    /\ follow = [t \in Callers |-> "none"]
    /\ unpacked = [t \in Callers |-> FALSE]
    /\ addedIds = {}
    /\ xdirs = {}
    /\ depth = [p \in AllPaths |-> 0]
    /\ deepest = -1
    /\ lastUnpack = NoUnpack
    /\ scans = 0

\* the call returns to the command: how it ended is remembered for the next
Return(t, res) ==
    /\ pc' = [pc EXCEPT ![t] = "idle"]
    /\ result' = [result EXCEPT ![t] = res]
    /\ prev' = IF res = "Ok" THEN (IF unpacked[t] THEN "OkUnpacked" ELSE "Ok")
               ELSE "Err"

\* step 1: scan_directory(root)?.  The scan fails when a directory entry
\* of the tree cannot be read (the root itself is readable: the project was
\* opened on it).
Scan(t, ok) ==
    /\ t \in callers
    /\ pc[t] = "idle"
    /\ ok \/ DOMAIN fs # {}
    /\ files' = [files EXCEPT ![t] = IF ok THEN scan_directory(fs) ELSE <<>>]
    /\ changes' = [changes EXCEPT ![t] = <<>>]
    /\ cur' = [cur EXCEPT ![t] = 0]
    /\ w' = [w EXCEPT ![t] = [p \in AllPaths |-> "none"]]
    /\ wdoc' = [wdoc EXCEPT ![t] = [p \in AllPaths |-> NoDoc]]
    /\ processed' = [processed EXCEPT ![t] = 0]
    /\ follow' = [follow EXCEPT ![t] = IF quiet THEN prev ELSE "none"]
    /\ unpacked' = [unpacked EXCEPT ![t] = FALSE]
    /\ quiet' = TRUE
    /\ IF ok
       THEN /\ pc' = [pc EXCEPT ![t] = "scanned"]
            /\ result' = [result EXCEPT ![t] = "none"]
            /\ UNCHANGED prev
       ELSE Return(t, "ErrScan")
    /\ Fault(ok)
    /\ UNCHANGED <<avars, fs, cache, lastCall, seen, hashedAt, edits, callers, buffer,
                   committed, saved, rpc, snap, addedIds>>

\* step 2: detector.detect_changes(&files)? under the detector's lock, then
\* the filter to Added | Modified
Detect(t, metaOk, hashOk) ==
    LET r == detect_changes(cache, fs, files[t], metaOk, hashOk)
        fti == files_to_index(r.trace)
    IN  /\ pc[t] = "scanned"
        /\ cache' = r.cache
        /\ lastCall' = IF r.trace = <<>> THEN lastCall
                       ELSE r.trace[Len(r.trace)]
        /\ seen' = SeenAfterAll(seen, fs, r.trace)
        /\ hashedAt' = HashedAfterAll(hashedAt, fs, r.trace)
        /\ IF r.ok
           THEN /\ changes' = [changes EXCEPT ![t] = r.trace]
                /\ w' = [w EXCEPT ![t] =
                          [p \in AllPaths |-> IF p \in Range(fti) THEN "pending"
                                           ELSE "none"]]
                /\ cur' = [cur EXCEPT ![t] = 1]
                /\ pc' = [pc EXCEPT ![t] = IF fti = <<>> THEN "final" ELSE "batch"]
                /\ UNCHANGED <<result, prev>>
           ELSE /\ Return(t, "ErrDetect")
                /\ UNCHANGED <<changes, w, cur>>
        /\ Fault(r.ok)
        /\ (\A p \in AllPaths : metaOk[p] /\ hashOk[p]) \/ ~r.ok
        /\ UNCHANGED <<avars, fs, edits, callers, files, wdoc, processed, buffer,
                       committed, saved, rpc, snap, quiet, follow, unpacked,
                       addedIds>>

\* step 3, one worker of the batch, up to the document being built: the
\* size check, then index_file up to add_document.  ioOk is the outcome of
\* the reads of index_file (type detection, metadata, hash); the metadata
\* read of the size check succeeds on a file that exists (a file whose
\* metadata cannot be read is not skipped and fails in index_file).
WorkerBuild(t, p, ioOk) ==
    LET big == IsFile(fs, p) /\ TooLarge(Size(fs[p].content))
        u == IF auto_unpack /\ is_archive(p) THEN unpack(fs, xdirs, p, 0)
             ELSE UnpackResult(FALSE, fs, xdirs)
    IN  /\ MayStart(t, p)
        /\ Fault(ioOk)
        /\ IF big
           THEN /\ w' = [w EXCEPT ![t][p] = "skipped"]
                /\ UNCHANGED <<fs, wdoc, unpacked, xdirs, depth, deepest>>
           ELSE /\ fs' = u.fs
                /\ xdirs' = u.dirs
                /\ unpacked' = [unpacked EXCEPT ![t] = @ \/ u.ok]
                /\ depth' = IF u.ok
                             THEN [depth EXCEPT ![UnpackDest(p)] = depth[p] + 1]
                             ELSE depth
                /\ deepest' = IF u.ok /\ depth[p] > deepest THEN depth[p]
                               ELSE deepest
                /\ IF ioOk /\ IsFile(fs, p)
                   THEN /\ w' = [w EXCEPT ![t][p] = "built"]
                        /\ wdoc' = [wdoc EXCEPT ![t][p] = FileDocument(p, fs[p])]
                   ELSE /\ w' = [w EXCEPT ![t][p] = "failed"]
                        /\ UNCHANGED wdoc
        /\ ioOk \/ ~big
        /\ UNCHANGED <<lastUnpack, cache, lastCall, seen, hashedAt, edits, callers, pc,
                       files, changes, cur, processed, result, buffer,
                       committed, saved, rpc, snap, quiet, prev, follow,
                       addedIds>>

\* step 3, the end of index_file: add_document under the writer's lock,
\* and the statistics of the file when index_file returned Ok
WorkerAdd(t, p, ok) ==
    /\ w[t][p] = "built"
    /\ IF ok
       THEN /\ buffer' = add_document(buffer, wdoc[t][p])
            /\ w' = [w EXCEPT ![t][p] = "added"]
            /\ processed' = [processed EXCEPT ![t] = @ + 1]
       ELSE /\ w' = [w EXCEPT ![t][p] = "failed"]
            /\ UNCHANGED <<buffer, processed>>
    /\ Fault(ok)
    /\ UNCHANGED <<avars, fs, cache, lastCall, seen, hashedAt, edits, callers, pc, files, changes, cur, wdoc, result,
                   committed, saved, rpc, snap, hvars>>

\* InvertedIndex::commit as every caller of it sees it: on success the
\* buffer is published; a failed IndexWriter::commit publishes nothing and
\* leaves the buffered documents in the writer or drops them
CommitIndex(ok, keep) ==
    IF ok
    THEN /\ committed' = commit(committed, buffer)
         /\ buffer' = EmptyBag
         /\ addedIds' = addedIds \cup IdsOf(buffer)
         /\ w' = [t \in Callers |-> [p \in AllPaths |->
                    IF w[t][p] = "added" THEN "visible" ELSE w[t][p]]]
    ELSE /\ UNCHANGED <<committed, addedIds>>
         /\ buffer' = IF keep THEN buffer ELSE EmptyBag
         /\ w' = [t \in Callers |-> [p \in AllPaths |->
                    IF w[t][p] = "added" /\ ~keep THEN "lost" ELSE w[t][p]]]

\* step 4: the batch has been iterated; commit it (a failure is logged)
BatchCommit(t, ok, keep) ==
    /\ pc[t] = "batch"
    /\ BatchDone(t, cur[t])
    /\ CommitIndex(ok, keep)
    /\ cur' = [cur EXCEPT ![t] = @ + 1]
    /\ pc' = [pc EXCEPT ![t] = IF cur[t] + 1 > NumBatches(changes[t])
                               THEN "final" ELSE "batch"]
    /\ Fault(ok)
    /\ ~ok \/ keep
    /\ UNCHANGED <<avars, fs, cache, lastCall, seen, hashedAt, edits, callers, files, changes, wdoc, processed, result,
                   saved, rpc, snap, quiet, prev, follow, unpacked>>

\* step 5: self.inverted_index.commit()?
FinalCommit(t, ok, keep) ==
    /\ pc[t] = "final"
    /\ CommitIndex(ok, keep)
    /\ IF ok
       THEN /\ pc' = [pc EXCEPT ![t] = "save"]
            /\ UNCHANGED <<result, prev>>
       ELSE Return(t, "ErrCommit")
    /\ Fault(ok)
    /\ ~ok \/ keep
    /\ UNCHANGED <<avars, fs, cache, lastCall, seen, hashedAt, edits, callers, files, changes, cur, wdoc, processed,
                   saved, rpc, snap, quiet, follow, unpacked>>

\* step 6: self.change_detector.lock().save(&cache_path)? and the return
SaveCache(t, ok) ==
    /\ pc[t] = "save"
    /\ saved' = IF ok THEN cache ELSE saved
    /\ Return(t, IF ok THEN "Ok" ELSE "ErrSave")
    /\ Fault(ok)
    /\ UNCHANGED <<avars, fs, cache, lastCall, seen, hashedAt, edits, callers, files, changes, cur, w, wdoc, processed,
                   buffer, committed, rpc, snap, quiet, follow, unpacked,
                   addedIds>>

\* IndexStats of the call that returned Ok
total_files(t) == Len(files[t])
indexed_files(t) == processed[t]

\* ------------------------------------------------------------------------
\* The query commands (search_database, get_project_metadata)
\* ------------------------------------------------------------------------
\* mutant: opening the reader commits what the writer has buffered
OpenReader_commit ==
    /\ rpc = "idle"
    /\ rpc' = "open"
    /\ committed' = commit(committed, buffer)
    /\ buffer' = EmptyBag
    /\ snap' = committed'
    /\ UNCHANGED <<avars, dvars, callers, pc, files, changes, cur, w, wdoc,
                   processed, result, saved, hvars>>

\* get_db() has handed out the Arc; the command opens its reader:
\* InvertedIndex::search for every variant of QueryPlanner::execute,
\* InvertedIndex::document_count for MasterIndexer::stats
OpenReader ==
    /\ rpc = "idle"
    /\ rpc' = "open"
    /\ snap' = searcher(committed, buffer)
    /\ UNCHANGED <<avars, dvars, callers, pc, files, changes, cur, w, wdoc,
                   processed, result, buffer, committed, saved, hvars>>

\* QueryPlanner::extract_deep: the extractor registry reads the file and
\* the output is formatted; neither the index nor the detector is used
ExtractDeep ==
    /\ rpc = "idle"
    /\ rpc' = "deep"
    /\ UNCHANGED <<avars, dvars, callers, pc, files, changes, cur, w, wdoc,
                   processed, result, buffer, committed, saved, snap, hvars>>

\* the command has collected its hits / num_docs / extraction and returns
CloseReader ==
    /\ rpc # "idle"
    /\ rpc' = "idle"
    /\ snap' = EmptyBag
    /\ UNCHANGED <<avars, dvars, callers, pc, files, changes, cur, w, wdoc,
                   processed, result, buffer, committed, saved, hvars>>

\* ------------------------------------------------------------------------
\* The detector used directly (as the unit tests of watcher.rs do)
\* ------------------------------------------------------------------------
DetectChange(p, metaOk, hashOk) ==
    LET r == detect_change(cache, fs, p, metaOk, hashOk)
    IN  /\ cache' = r.cache
        /\ lastCall' = [path |-> p, change |-> r.change, hashed |-> r.hashed]
        /\ seen' = SeenAfter(seen, fs, p, r)
        /\ hashedAt' = HashedAfter(hashedAt, fs, p, r)
        /\ Fault(r.change # "Err")
        /\ (metaOk /\ hashOk) \/ r.change = "Err"
        /\ UNCHANGED <<fs, edits>>

\* I/O outcomes of one batch: the iteration stops at the first failure, so
\* one failing path (or none, bad = 0) and the call that fails on it cover
\* every outcome
FailMeta(bad, kind) == [p \in AllPaths |-> ~(p = bad /\ kind = "meta")]
FailHash(bad, kind) == [p \in AllPaths |-> ~(p = bad /\ kind = "hash")]

DetectChanges(S, metaOk, hashOk) ==
    LET r == detect_changes(cache, fs, SortedSeq(S), metaOk, hashOk)
        l == r.trace[Len(r.trace)]
    IN  /\ S # {}
        /\ cache' = r.cache
        /\ lastCall' = l
        /\ seen' = SeenAfterAll(seen, fs, r.trace)
        /\ hashedAt' = HashedAfterAll(hashedAt, fs, r.trace)
        /\ Fault(r.ok)
        /\ (\A p \in Paths : metaOk[p] /\ hashOk[p]) \/ ~r.ok
        /\ UNCHANGED <<fs, edits>>

\* the detector looks at size and hash only: two contents of one size and
\* one of another are all it can tell apart
DetectorContents == {"a", "b", "zipzip"}

\* the files the detector is first pointed at
DetectorTrees ==
    UNION {[S -> {File(c, 0) : c \in DetectorContents}] : S \in SUBSET Paths}

InitDetector ==
    /\ fs \in DetectorTrees
    /\ cache = EmptyMap
    /\ lastCall = NoCall
    /\ seen = EmptyMap
    /\ hashedAt = EmptyMap
    /\ edits = 0
    /\ faults = 0
    /\ callers = {}
    /\ IndexerInit
    /\ NoIndexFile
    /\ NoQuery
    /\ NoGroups
    /\ NoCsv
    /\ NoLocks

EnvDetector ==
    /\ edits < MaxEdits
    /\ edits' = edits + 1
    /\ \/ \E p \in Paths, c \in DetectorContents, m \in Times : CreateFile(p, c, m)
       \/ \E p \in Paths, c \in DetectorContents, m \in Times : ModifyFile(p, c, m)
       \/ \E p \in Paths, m \in Times : TouchFile(p, m)
       \/ \E p \in Paths : DeleteFile(p)
       \/ \E p \in Paths : MakeDir(p)
    /\ UNCHANGED <<cache, lastCall, seen, hashedAt, faults>>

NextDetector ==
    /\ \/ EnvDetector
       \/ \E p \in Paths, metaOk \in BOOLEAN, hashOk \in BOOLEAN :
              DetectChange(p, metaOk, hashOk)
       \/ \E S \in SUBSET Paths, bad \in Paths \cup {0}, kind \in {"meta", "hash"} :
              DetectChanges(S, FailMeta(bad, kind), FailHash(bad, kind))
    /\ UNCHANGED <<ivars, hvars, avars, scans, fvars, qvars, gvars, cvars, lvars>>

SpecDetector == InitDetector /\ [][NextDetector]_vars

\* ------------------------------------------------------------------------
\* The indexer behind the command surface
\* ------------------------------------------------------------------------
\* the trees a project starts from: plain files, and at the first path
\* possibly an archive or an archive of an archive
InitTrees ==
    {[p \in S |-> File(IF p = 1 THEN c ELSE "a", 0)] :
        S \in SUBSET Paths, c \in {"a", "zip", "zipzip"}}

InitIndexer ==
    /\ fs \in InitTrees
    /\ cache = EmptyMap
    /\ lastCall = NoCall
    /\ seen = EmptyMap
    /\ hashedAt = EmptyMap
    /\ edits = 0
    /\ faults = 0
    /\ callers = {"c1"}
    /\ IndexerInit
    /\ NoIndexFile
    /\ NoQuery
    /\ NoGroups
    /\ NoCsv
    /\ NoLocks

\* the tree is edited between runs
EnvIndexer ==
    /\ \A t \in Callers : pc[t] = "idle"
    /\ edits < MaxEdits
    /\ edits' = edits + 1
    /\ quiet' = FALSE
    /\ \/ \E p \in Paths, c \in Contents, m \in Times : CreateFile(p, c, m)
       \/ \E p \in Paths, c \in Contents, m \in Times : ModifyFile(p, c, m)
       \/ \E p \in Paths, m \in Times : TouchFile(p, m)
       \/ \E p \in Paths : DeleteFile(p)
    /\ depth' = [q \in AllPaths |->
                   IF q \in DOMAIN fs' /\ (q \notin DOMAIN fs \/ fs'[q] # fs[q])
                   THEN 0 ELSE depth[q]]
    /\ UNCHANGED <<xdirs, deepest, lastUnpack, cache, lastCall, seen, hashedAt, faults, ivars, prev,
                   follow, unpacked, addedIds>>

RunIndexer ==
    \/ \E t \in Callers, ok \in BOOLEAN : Scan(t, ok)
    \/ \E t \in Callers, bad \in AllPaths \cup {0}, kind \in {"meta", "hash"} :
           Detect(t, FailMeta(bad, kind), FailHash(bad, kind))
    \/ \E t \in Callers, p \in AllPaths, ioOk \in BOOLEAN : WorkerBuild(t, p, ioOk)
    \/ \E t \in Callers, p \in AllPaths, ok \in BOOLEAN : WorkerAdd(t, p, ok)
    \/ \E t \in Callers, ok \in BOOLEAN, keep \in BOOLEAN : BatchCommit(t, ok, keep)
    \/ \E t \in Callers, ok \in BOOLEAN, keep \in BOOLEAN : FinalCommit(t, ok, keep)
    \/ \E t \in Callers, ok \in BOOLEAN : SaveCache(t, ok)

\* index_directory runs with the tree edited between them
NextIndexer ==
    /\ \/ EnvIndexer
       \/ RunIndexer
    /\ UNCHANGED <<scans, fvars, qvars, gvars, cvars, lvars>>

SpecIndexer == InitIndexer /\ [][NextIndexer]_vars

\* index_directory runs with query commands issued at any moment
NextSearch ==
    /\ \/ RunIndexer
       \/ OpenReader
       \/ ExtractDeep
       \/ CloseReader
    /\ UNCHANGED <<scans, fvars, qvars, gvars, cvars, lvars>>

SpecSearch == InitIndexer /\ [][NextSearch]_vars

\* ------------------------------------------------------------------------
\* The indexer over nested archives
\* ------------------------------------------------------------------------
\* the evidence is one file, a plain one or an archive nested up to four
\* deep ("nested.zip")
NestedTrees ==
    {[p \in {1} |-> File(c, 0)] : c \in {"a", "zip", "zipzip", "zip3", "zip4"}}

InitNested ==
    /\ fs \in NestedTrees
    /\ cache = EmptyMap
    /\ lastCall = NoCall
    /\ seen = EmptyMap
    /\ hashedAt = EmptyMap
    /\ edits = 0
    /\ faults = 0
    /\ callers = {"c1"}
    /\ IndexerInit
    /\ NoIndexFile
    /\ NoQuery
    /\ NoGroups
    /\ NoCsv
    /\ NoLocks

\* a run that returns Ok is counted
CountScans ==
    scans' = IF \E t \in Callers : pc[t] = "save" /\ result'[t] = "Ok"
             THEN (IF scans < MaxScans THEN scans + 1 ELSE scans)
             ELSE scans

\* index_directory is run again and again, nobody edits the tree
NextNested ==
    /\ RunIndexer
    /\ CountScans
    /\ UNCHANGED <<fvars, qvars, gvars, cvars, lvars>>

SpecNested == InitNested /\ [][NextNested]_vars

\* ------------------------------------------------------------------------
\* The archive extractor used directly
\* ------------------------------------------------------------------------
\* the nesting levels a caller may pass: up to one above the maximum
Levels == 0..(max_nesting_level + 1)

Unpack(p, nesting_level) ==
    LET r == unpack(fs, xdirs, p, nesting_level)
    IN  /\ fs' = r.fs
        /\ xdirs' = r.dirs
        /\ lastUnpack' = [path |-> p, level |-> nesting_level, ok |-> r.ok,
                          made |-> (r.fs # fs \/ r.dirs # xdirs)]
        /\ UNCHANGED <<cache, lastCall, seen, hashedAt, edits, faults, ivars,
                       hvars, depth, deepest, scans, fvars, qvars, gvars, cvars, lvars>>

\* the trees the extractor is pointed at: plain files and archives, one of
\* them above max_archive_size
UnpackTrees ==
    UNION {[S -> {File(c, 0) : c \in {"a", "zip", "zipzip", "hugezip"}}] :
               S \in SUBSET Paths}

InitUnpack ==
    /\ fs \in UnpackTrees
    /\ cache = EmptyMap
    /\ lastCall = NoCall
    /\ seen = EmptyMap
    /\ hashedAt = EmptyMap
    /\ edits = 0
    /\ faults = 0
    /\ callers = {}
    /\ IndexerInit
    /\ NoIndexFile
    /\ NoQuery
    /\ NoGroups
    /\ NoCsv
    /\ NoLocks

EnvUnpack ==
    /\ edits < MaxEdits
    /\ edits' = edits + 1
    /\ \/ \E p \in Paths, c \in ArchiveContents, m \in Times : CreateFile(p, c, m)
       \/ \E p \in Paths : DeleteFile(p)
       \/ \E p \in Paths : MakeDir(p)
    /\ UNCHANGED <<cache, lastCall, seen, hashedAt, faults, ivars, hvars,
                   avars, scans, fvars, qvars, gvars, cvars, lvars>>

NextUnpack ==
    \/ EnvUnpack
    \/ \E p \in AllPaths, l \in Levels : Unpack(p, l)

SpecUnpack == InitUnpack /\ [][NextUnpack]_vars

\* ------------------------------------------------------------------------
\* The extractors (ExtractorRegistry) over file contents
\* ------------------------------------------------------------------------
ExtractorOutput(structured, content, preview) ==
    [structured |-> structured, content |-> content, preview |-> preview]

Ok(v) == [ok |-> TRUE, value |-> v]
Err == [ok |-> FALSE, value |-> ExtractorOutput(None, None, <<>>)]

\* the length above which the text, JSON and XML extractors cut the
\* content, and to which the summarising extractors cut their summary
PreviewLimit == 500

\* the previews of the text, JSON and XML extractors: content longer than
\* 500 bytes is cut to 497 and "\n..." is appended
content_preview(content) ==
    IF Len(content) > PreviewLimit
    THEN SubSeq(content, 1, 497) \o <<"LF", ".", ".", ".">>
    ELSE content

\* ExtractorRegistry::find_extractor: the first registered extractor whose
\* can_handle accepts, in the order of ExtractorRegistry::new
find_extractor(category, mime) ==
    LET m == Chars(mime)
    IN
    IF category = "Database"
         /\ (contains_sequence(m, Chars("sqlite"))
             \/ contains_sequence(m, Chars("x-sqlite")))
    THEN "sqlite"
    ELSE IF category = "StructuredData" /\ mime \in {"application/json", "text/json"}
    THEN "json"
    ELSE IF category = "StructuredData" /\ mime = "text/csv" THEN "csv"
    ELSE IF category = "Document"
              /\ contains_sequence(m,
                     Chars("vnd.openxmlformats-officedocument.spreadsheetml"))
    THEN "excel"
    ELSE IF category = "StructuredData" /\ mime \in {"application/xml", "text/xml"}
    THEN "xml"
    ELSE IF category = "Text" THEN "text"
    ELSE IF category = "Database"
              /\ (contains_sequence(m, Chars("leveldb"))
                  \/ contains_sequence(m, Chars("x-leveldb")))
    THEN "leveldb"
    ELSE IF category = "Database" THEN "indexeddb"
    ELSE "none"

\* ExtractorRegistry::extract and the extract of the extractor it finds.
\* lib is the verdict of the parsing library the extractor hands the file to
\* (serde_json, quick_xml, csv, rusqlite, calamine): accepted or not, and
\* when accepted the summary line the extractor formats from what was parsed
extract(bytes, category, mime, lib) ==
    LET e == find_extractor(category, mime)
        \* preview.chars().take(500).collect()
        Summary(kind) ==
            IF ~lib.ok THEN Err
            ELSE Ok(ExtractorOutput(Some(kind), None,
                                    Take(lib.summary, PreviewLimit)))
        \* fs::read_to_string fails on a file that is not UTF-8
        Content(structured) ==
            IF ~from_utf8_ok(bytes) \/ ~lib.ok THEN Err
            ELSE Ok(ExtractorOutput(structured, Some(bytes),
                                    content_preview(bytes)))
    IN  CASE e = "sqlite" -> Summary("Sqlite")
          [] e = "json" -> Content(Some("Json"))
          [] e = "csv" -> Summary("Csv")
          [] e = "excel" -> Summary("Excel")
          [] e = "xml" -> Content(Some("Xml"))
          [] e = "text" -> Content(None)
          \* the path of a regular file is no directory
          [] e = "leveldb" -> Err
          [] e = "indexeddb" -> Err
          [] OTHER -> Ok(ExtractorOutput(None, None, Chars(mime) \o Chars(" file")))

\* ------------------------------------------------------------------------
\* MasterIndexer::index_file on one file, contents byte by byte
\* ------------------------------------------------------------------------
\* ImagePreviewGenerator::is_image: the extension of the path is one of
\* PreviewConfig::default().supported_formats
is_image(ext) ==
    ext \in {"jpg", "jpeg", "png", "gif", "bmp", "webp", "tiff", "tif", "ico"}

\* mutant: a failed extraction leaves an empty preview
minimal_extraction_blank(path) == ExtractorOutput(None, None, <<>>)

\* the closure of unwrap_or_else: the minimal extraction
minimal_extraction(path) ==
    ExtractorOutput(None, None, Chars("File: ") \o path)

\* steps 2 and 3: FileTypeDetector::detect, whose I/O error ends index_file,
\* and the image preview, when the indexer has a generator, the path has an
\* image extension and the image crate decodes the file
IxDetect(ok) ==
    /\ ipc = "detect"
    /\ IF ok
       THEN /\ detected' = Some(detect(input.bytes))
            /\ image_info' =
                   IF input.has_preview /\ is_image(input.ext)
                        /\ input.image # None
                   THEN LET img == CHOOSE i \in input.image : TRUE
                        IN  Some([width |-> img.width, height |-> img.height,
                                  format |-> input.ext])
                   ELSE None
            /\ ipc' = "extract"
       ELSE /\ UNCHANGED <<detected, image_info>>
            /\ ipc' = "err_detect"
    /\ UNCHANGED <<input, extraction, xerr, file_doc, files_processed>>

\* steps 4 to 7: fs::metadata and calculate_hash, whose errors end
\* index_file, then the extractor, or the minimal extraction when it fails
IxExtract(metaOk, hashOk) ==
    /\ ipc = "extract"
    /\ IF metaOk /\ hashOk
       THEN LET det == CHOOSE d \in detected : TRUE
                r == extract(input.bytes, det.category, det.mime_type,
                             input.lib)
            IN  /\ xerr' = ~r.ok
                /\ extraction' = Some(IF r.ok THEN r.value
                                      ELSE minimal_extraction(input.path))
                /\ ipc' = "add"
       ELSE /\ UNCHANGED <<xerr, extraction>>
            /\ ipc' = IF metaOk THEN "err_hash" ELSE "err_stat"
    /\ UNCHANGED <<input, detected, image_info, file_doc, files_processed>>

\* steps 8 to 10 and the worker closure: the preview with the image overlay
\* "Image: {w}x{h} {format} - {preview}", the FileDocument, add_document,
\* and the count of the file when index_file returned Ok
IxAddDocument(ok) ==
    /\ ipc = "add"
    /\ LET det == CHOOSE d \in detected : TRUE
           out == CHOOSE o \in extraction : TRUE
           preview ==
               IF image_info = None THEN out.preview
               ELSE LET info == CHOOSE i \in image_info : TRUE
                    IN  Chars("Image: ") \o info.width \o <<"x">>
                            \o info.height \o <<" ">> \o Chars(info.format)
                            \o Chars(" - ") \o out.preview
       IN  IF ok
           THEN /\ file_doc' =
                       Some([id |-> make_doc_id(input.path),
                             path |-> input.path,
                             size |-> Len(input.bytes),
                             modified |-> 0,
                             hash |-> Sha256(input.bytes),
                             mime_type |-> det.mime_type,
                             category |-> det.category,
                             structured |-> out.structured,
                             content |-> out.content,
                             preview |-> Some(preview),
                             image_metadata |-> image_info])
                /\ files_processed' = files_processed + 1
                /\ ipc' = "done"
           ELSE /\ UNCHANGED <<file_doc, files_processed>>
                /\ ipc' = "err_add"
    /\ UNCHANGED <<input, detected, image_info, extraction, xerr>>

\* What index_file is called on.  The files are a head, a run of one byte
\* and a tail: text of every length around the preview limit and the
\* detection buffer, clean or ending in a byte that is no UTF-8; JSON, XML
\* and CSV; and every magic of the detector.  The paths are "/ppp.txt",
\* "/ppp.png" and the same with a name so long that "File: <path>" passes
\* the preview limit.  The image crate decodes only files that begin
\* with the magic of an image, and the parsers have a verdict only on the
\* files handed to them.
IndexFileInputs ==
    LET Fill(c, n) == [i \in 1..n |-> c]
        BadUtf8 == <<"xFF">>
        JsonOpen == <<"{", "\"", "k", "\"", ":", "\"">>
        JsonClose == <<"\"", "}">>
        XmlOpen == <<"<", "r", ">">>
        XmlClose == <<"<", "/", "r", ">">>
        CsvHead == <<"a", ",", "b", "LF", "1", ",", "2", "LF">>
        TextSamples ==
            {Fill("a", n) \o tail :
                n \in {0, 1, PreviewLimit - 3, PreviewLimit - 1, PreviewLimit,
                       PreviewLimit + 1, DetectBufferSize + 1},
                tail \in {<<>>, BadUtf8}}
        StructuredSamples ==
            {JsonOpen \o Fill("a", n) \o JsonClose : n \in {0, PreviewLimit}}
            \cup {JsonOpen \o Fill("a", DetectBufferSize) \o BadUtf8}
            \cup {XmlOpen \o Fill("a", n) \o XmlClose : n \in {0, PreviewLimit}}
            \cup {XmlOpen \o Fill("a", DetectBufferSize) \o BadUtf8}
            \cup {CsvHead \o Fill("a", n) : n \in {0, PreviewLimit}}
        ImageMagics ==
            {Magic("PNG"), Magic("JPEG"), Magic("GIF87a"), Magic("GIF89a"),
             Magic("RIFF") \o Fill("NUL", 4) \o Magic("WEBP")}
        MagicSamples ==
            {magic \o Fill("NUL", 30) :
                magic \in ImageMagics \cup
                   {Magic("SQLite format 3"), Magic("leveldb/"), Magic("PK"),
                    Magic("PK") \o Magic("[Content_Types].xml") \o Magic("xl/"),
                    Magic("PK") \o Magic("[Content_Types].xml") \o Magic("word/"),
                    Magic("%PDF"), Magic("PAR1"), Magic("ELF"),
                    Magic("FEEDFACE"), Magic("FEEDFACF"), Magic("CAFEBABE"),
                    Magic("MZ")}}
        Decoded ==
            {[width |-> <<"1">>, height |-> <<"1">>],
             [width |-> <<"4", "0", "9", "6">>,
              height |-> <<"2", "1", "6", "0">>]}
        NoVerdict == [ok |-> TRUE, summary |-> <<>>]
        Verdicts ==
            {[ok |-> FALSE, summary |-> <<>>]}
            \cup {[ok |-> TRUE, summary |-> Fill("s", n)] :
                     n \in {40, PreviewLimit + 100}}
        PathOf(n, ext) == <<"/">> \o Fill("p", n) \o <<".">> \o Chars(ext)
        All ==
         {[path |-> PathOf(n, ext), ext |-> ext, bytes |-> bytes,
          has_preview |-> has_preview, image |-> image, lib |-> lib] :
             n \in {3, PreviewLimit - 5},
             ext \in {"txt", "png"},
             has_preview \in BOOLEAN,
             <<bytes, image, lib>> \in
                 {x \in (TextSamples \cup StructuredSamples \cup MagicSamples)
                        \X ({None} \cup {Some(d) : d \in Decoded})
                        \X (Verdicts \cup {NoVerdict}) :
                     /\ x[2] # None =>
                            \E m \in ImageMagics : StartsWith(x[1], m)
                     /\ LET det == detect(x[1])
                        IN  IF find_extractor(det.category, det.mime_type)
                                 \in {"sqlite", "json", "csv", "excel", "xml"}
                            THEN x[3] \in Verdicts
                            ELSE x[3] = NoVerdict}}
    IN  {i \in All : i.image # None => i.has_preview /\ is_image(i.ext)}

InitIndexFile ==
    /\ fs = EmptyMap
    /\ cache = EmptyMap
    /\ lastCall = NoCall
    /\ seen = EmptyMap
    /\ hashedAt = EmptyMap
    /\ edits = 0
    /\ faults = 0
    /\ callers = {}
    /\ IndexerInit
    /\ input \in IndexFileInputs
    /\ ipc = "detect"
    /\ detected = None
    /\ image_info = None
    /\ extraction = None
    /\ xerr = FALSE
    /\ file_doc = None
    /\ files_processed = 0
    /\ NoQuery
    /\ NoGroups
    /\ NoCsv
    /\ NoLocks

NextIndexFile ==
    /\ \/ \E ok \in BOOLEAN : IxDetect(ok)
       \/ \E metaOk \in BOOLEAN, hashOk \in BOOLEAN : IxExtract(metaOk, hashOk)
       \/ \E ok \in BOOLEAN : IxAddDocument(ok)
    /\ UNCHANGED <<dvars, ivars, hvars, avars, scans, qvars, gvars, cvars, lvars>>

SpecIndexFile == InitIndexFile /\ [][NextIndexFile]_vars

\* ------------------------------------------------------------------------
\* QueryPlanner::execute
\* ------------------------------------------------------------------------
\* A query string is the sequence of its parts.  What the index answers to
\* a query string (the parse of the string, the matching documents, their
\* ranking by score) is Tantivy's: `responses` maps every query string to an
\* error or to the ids of the matching documents, best score first.

\* QueryPlanner::execute_fulltext over InvertedIndex::search: the top
\* `limit` documents as hits, or the error of the search; the score of a hit
\* belongs to the query string and the rank
execute_fulltext(resp, query_str, limit) ==
    IF ~resp[query_str].ok THEN [ok |-> FALSE, hits |-> <<>>]
    ELSE LET ids == Take(resp[query_str].ids, limit)
         IN  [ok |-> TRUE,
              hits |-> [k \in DOMAIN ids |->
                           [id |-> ids[k], score |-> <<query_str, k>>]]]

\* QueryPlanner::execute_metadata_filter: the parts that are given, joined
\* with " AND ", or "*" when there is none; the parameters _min_size and
\* _max_size are not read
execute_metadata_filter(resp, category, mime_type, min_size, max_size, extension) ==
    LET \* format!("{:?}", category).to_lowercase()
        Lower(c) ==
            CASE c = "Database" -> "database"
              [] c = "StructuredData" -> "structureddata"
              [] c = "Document" -> "document"
              [] c = "Text" -> "text"
              [] c = "Media" -> "media"
              [] c = "Archive" -> "archive"
              [] c = "Binary" -> "binary"
              [] OTHER -> "unknown"
        query_parts ==
            (IF category = None THEN <<>>
             ELSE <<(<<"category:", Lower(CHOOSE c \in category : TRUE)>>)>>)
            \o (IF mime_type = None THEN <<>>
                ELSE <<(<<"mime_type:", CHOOSE m \in mime_type : TRUE>>)>>)
            \o (IF extension = None THEN <<>>
                ELSE <<(<<"extension:", CHOOSE e \in extension : TRUE>>)>>)
        RECURSIVE join_and(_)
        join_and(parts) ==
            IF Len(parts) = 1 THEN Head(parts)
            ELSE Head(parts) \o <<" AND ">> \o join_and(Tail(parts))
        query_str == IF query_parts = <<>> THEN <<"*">>
                     ELSE join_and(query_parts)
    IN  execute_fulltext(resp, query_str, 10000)

\* QueryPlanner::execute_structured: the query string "{field}:{query}"
execute_structured(resp, structured_type, q) ==
    LET field == CASE structured_type = "SqlTable" -> "tables"
                   [] structured_type = "JsonPath" -> "paths"
                   [] OTHER -> "columns"
    IN  execute_fulltext(resp, <<field, ":">> \o q, 100)

\* mutant: the hits of the second list are the ones retained
intersect_results_second(a, b) ==
    LET a_ids == {a[k].id : k \in DOMAIN a}
        keep(hit) == hit.id \in a_ids
    IN  SelectSeq(b, keep)

\* QueryPlanner::intersect_results: a.retain(|hit| b_ids.contains(&hit.id))
intersect_results(a, b) ==
    LET b_ids == {b[k].id : k \in DOMAIN b}
        keep(hit) == hit.id \in b_ids
    IN  SelectSeq(a, keep)

\* QueryPlanner::execute: the QueryResult, or the error of a search, which
\* is returned with `?`
RECURSIVE execute(_, _)
execute(resp, q) ==
    LET hits ==
            CASE q.type = "FullText" ->
                     execute_fulltext(resp, q.query,
                         IF q.limit = None THEN 100
                         ELSE CHOOSE l \in q.limit : TRUE)
              [] q.type = "Metadata" ->
                     execute_metadata_filter(resp, q.category,
                         q.mime_type, q.min_size, q.max_size, q.extension)
              [] q.type = "Structured" ->
                     execute_structured(resp, q.structured_type, q.query)
              [] OTHER ->
                     LET metadata_results == execute(resp, q.metadata)
                     IN  IF ~metadata_results.ok
                         THEN [ok |-> FALSE, hits |-> <<>>]
                         ELSE LET fulltext_results == execute(resp, q.fulltext)
                              IN  IF ~fulltext_results.ok
                                  THEN [ok |-> FALSE, hits |-> <<>>]
                                  ELSE [ok |-> TRUE,
                                        hits |-> intersect_results(
                                                     metadata_results.hits,
                                                     fulltext_results.hits)]
    IN  IF hits.ok
        THEN [ok |-> TRUE, hits |-> hits.hits, total |-> Len(hits.hits)]
        ELSE [ok |-> FALSE, hits |-> <<>>, total |-> 0]

\* the query command: the result of the query and, of a Combined query, of
\* its two subqueries
Execute ==
    /\ query # None
    /\ qresult = None
    /\ LET q == CHOOSE x \in query : TRUE
       IN  /\ qresult' = Some(execute(responses, q))
           /\ subresults' = IF q.type = "Combined"
                            THEN <<execute(responses, q.metadata),
                                   execute(responses, q.fulltext)>>
                            ELSE <<>>
    /\ UNCHANGED <<responses, query>>

\* the queries: as leaves a full-text query with and without a limit, a
\* metadata filter and a structured query; every Combined of two leaves;
\* a Combined whose metadata side is itself a Combined; and metadata
\* filters with a size bound (sizes in the units of Size)
Queries ==
    LET FullText(q, limit) == [type |-> "FullText", query |-> q, limit |-> limit]
        Metadata(category, mime_type, min_size, max_size, extension) ==
            [type |-> "Metadata", category |-> category,
             mime_type |-> mime_type, min_size |-> min_size,
             max_size |-> max_size, extension |-> extension]
        Structured(structured_type, q) ==
            [type |-> "Structured", structured_type |-> structured_type,
             query |-> q]
        Combined(metadata, fulltext) ==
            [type |-> "Combined", metadata |-> metadata, fulltext |-> fulltext]
        Leaves ==
            {FullText(<<"q">>, None), FullText(<<"q">>, Some(1)),
             Metadata(Some("Text"), None, None, None, None),
             Structured("SqlTable", <<"q">>)}
    IN  Leaves
        \cup {Combined(a, b) : a \in Leaves, b \in Leaves}
        \cup {Combined(Combined(Metadata(Some("Text"), None, None, None, None),
                                FullText(<<"q">>, None)), b) : b \in Leaves}
        \cup {Metadata(Some("Text"), None, Some(2), None, None),
              Metadata(Some("Text"), None, None, Some(0), None),
              Metadata(Some("Text"), None, Some(1), Some(1), None)}

\* a query arrives at an index that holds one document of content "a" for
\* every path and answers each query string with an error or with up to
\* MaxHits ids, the same id more than once when the index holds two
\* documents of one file
InitQuery ==
    /\ fs = EmptyMap
    /\ cache = EmptyMap
    /\ lastCall = NoCall
    /\ seen = EmptyMap
    /\ hashedAt = EmptyMap
    /\ edits = 0
    /\ faults = 0
    /\ callers = {}
    /\ pc = [t \in Callers |-> "idle"]
    /\ files = [t \in Callers |-> <<>>]
    /\ changes = [t \in Callers |-> <<>>]
    /\ cur = [t \in Callers |-> 0]
    /\ w = [t \in Callers |-> [p \in AllPaths |-> "none"]]
    /\ wdoc = [t \in Callers |-> [p \in AllPaths |-> NoDoc]]
    /\ processed = [t \in Callers |-> 0]
    /\ result = [t \in Callers |-> "none"]
    /\ buffer = EmptyBag
    /\ committed = SetToBag({FileDocument(p, File("a", 0)) : p \in Paths})
    /\ saved = EmptyMap
    /\ rpc = "idle"
    /\ snap = EmptyBag
    /\ quiet = FALSE
    /\ prev = "none"
    /\ follow = [t \in Callers |-> "none"]
    /\ unpacked = [t \in Callers |-> FALSE]
    /\ addedIds = {}
    /\ xdirs = {}
    /\ depth = [p \in AllPaths |-> 0]
    /\ deepest = -1
    /\ lastUnpack = NoUnpack
    /\ scans = 0
    /\ NoIndexFile
    /\ query \in {Some(q) : q \in Queries}
    /\ LET QueryStrings ==
               {<<"q">>, <<"category:", "text">>, <<"tables", ":", "q">>}
           DocIds == {make_doc_id(p) : p \in Paths}
           Answers ==
               {[ok |-> FALSE, ids |-> <<>>]}
               \cup {[ok |-> TRUE, ids |-> ids] :
                        ids \in UNION {[1..n -> DocIds] : n \in 0..MaxHits}}
       IN  responses \in [QueryStrings -> Answers]
    /\ qresult = None
    /\ subresults = <<>>
    /\ NoGroups
    /\ NoCsv
    /\ NoLocks

NextQuery ==
    /\ Execute
    /\ UNCHANGED <<dvars, ivars, hvars, avars, scans, fvars, gvars, cvars, lvars>>

SpecQuery == InitQuery /\ [][NextQuery]_vars

\* ------------------------------------------------------------------------
\* AuxiliaryProjectDb: the groups
\* ------------------------------------------------------------------------
\* A string is the sequence of its characters; the name of sled's default
\* tree is one token.  A group holds no entry: nothing in the program
\* inserts into a group tree.

\* the names and colors the commands are called with
GroupNames == {<<"x">>, <<"x", "-">>}
Colors == {<<"r">>, <<"#", "f">>}

\* format!("g-{}-{}", name.replace("-", "#"), color)
group_tree(name, color) ==
    <<"g", "-">>
    \o [i \in DOMAIN name |-> IF name[i] = "-" THEN "#" ELSE name[i]]
    \o <<"-">> \o color

\* AuxiliaryProjectDb::create_group: open_tree creates the tree of the key
\* when there is none
create_group(name, color) ==
    /\ trees' = trees \cup {group_tree(name, color)}
    /\ listed' = None
    /\ live' = live \cup {<<name, color>>}
    /\ dropped' = dropped \ {<<name, color>>}

\* AuxiliaryProjectDb::delete_group: drop_tree removes the tree of the key,
\* and is Ok when there is none
delete_group(name, color) ==
    /\ trees' = trees \ {group_tree(name, color)}
    /\ listed' = None
    /\ live' = live \ {<<name, color>>}
    /\ dropped' = dropped \cup {<<name, color>>}

\* AuxiliaryProjectDb::get_trees: for every tree of the database but the
\* default one, its name with every "#" replaced by "-"
get_trees(db) ==
    LET str(x) == [i \in DOMAIN x |-> IF x[i] = "#" THEN "-" ELSE x[i]]
    IN  [x \in {y \in db : str(y) # <<"__sled__default">>} |-> str(x)]

\* AuxiliaryProjectDb::get_groups: every outcome of the loop over the names
\* of get_trees that start with "g-", whatever the order tree_names lists
\* the trees in.  open_tree(grp) creates the tree named grp when there is
\* none; parts[1] panics when grp holds no "--".  Without such a name the
\* loop opens every name and returns one Group per tree (a bag: the order
\* is tree_names'); with one, the loop has opened any number of the other
\* names, and that one, when it panics.
get_groups(db) ==
    LET names == get_trees(db)
        \* grp.split("--")
        RECURSIVE split(_)
        split(s) ==
            LET at == {i \in 1..(Len(s) - 1) : s[i] = "-" /\ s[i + 1] = "-"}
            IN  IF at = {} THEN <<s>>
                ELSE LET i == CHOOSE k \in at : \A j \in at : k <= j
                     IN  <<SubSeq(s, 1, i - 1)>>
                         \o split(SubSeq(s, i + 2, Len(s)))
        \* parts[0].to_string().replace("g-", "")
        RECURSIVE strip(_)
        strip(s) ==
            LET at == {i \in 1..(Len(s) - 1) : s[i] = "g" /\ s[i + 1] = "-"}
            IN  IF at = {} THEN s
                ELSE LET i == CHOOSE k \in at : \A j \in at : k <= j
                     IN  SubSeq(s, 1, i - 1)
                         \o strip(SubSeq(s, i + 2, Len(s)))
        grps == {x \in DOMAIN names : StartsWith(names[x], <<"g", "-">>)}
        panics == {x \in grps : Len(split(names[x])) < 2}
        Group(x) == [name |-> strip(split(names[x])[1]),
                     color |-> split(names[x])[2],
                     content |-> <<>>]
    IN  IF panics = {}
        THEN {[ok |-> TRUE,
               result |-> [g \in {Group(x) : x \in grps} |->
                              Cardinality({x \in grps : Group(x) = g})],
               trees |-> db \cup {names[x] : x \in grps}]}
        ELSE {[ok |-> FALSE,
               result |-> EmptyBag,
               trees |-> db \cup {names[y] : y \in before} \cup {names[last]}] :
                   before \in SUBSET (grps \ panics), last \in panics}

\* the get_groups command
GetGroups ==
    \E out \in get_groups(trees) :
        /\ trees' = out.trees
        /\ listed' = Some([ok |-> out.ok, result |-> out.result])
        /\ UNCHANGED <<live, dropped>>

InitGroups ==
    /\ fs = EmptyMap
    /\ cache = EmptyMap
    /\ lastCall = NoCall
    /\ seen = EmptyMap
    /\ hashedAt = EmptyMap
    /\ edits = 0
    /\ faults = 0
    /\ callers = {}
    /\ IndexerInit
    /\ NoIndexFile
    /\ NoQuery
    /\ NoGroups
    /\ NoCsv
    /\ NoLocks

NextGroups ==
    /\ \/ \E name \in GroupNames, color \in Colors : create_group(name, color)
       \/ \E name \in GroupNames, color \in Colors : delete_group(name, color)
       \/ GetGroups
    /\ UNCHANGED <<dvars, ivars, hvars, avars, scans, fvars, qvars, cvars, lvars>>

SpecGroups == InitGroups /\ [][NextGroups]_vars

\* ------------------------------------------------------------------------
\* CsvExtractor
\* ------------------------------------------------------------------------
\* The csv reader is the sequence of the data records not read yet, each
\* record the sequence of its fields.  The fields of the model are "",
\* "7" (parses as i64 and as f64), "1.5" (as f64 only) and "x" (neither).

\* records().take(100)
SampleRows == 100

\* CsvExtractor::infer_schema: the schema, and the reader after the sample
\* was read from it
infer_schema(reader, headers) ==
    LET sample == Take(reader, SampleRows)
        fields(idx) == {sample[r][idx] : r \in {k \in DOMAIN sample :
                                                  idx <= Len(sample[k])}}
        has_values(idx) == fields(idx) \ {""} # {}
        all_numeric(idx) == fields(idx) \ {""} \subseteq {"7", "1.5"}
        all_integer(idx) == fields(idx) \ {""} \subseteq {"7"}
    IN  [schema |->
             [idx \in DOMAIN headers |->
                 [name |-> headers[idx],
                  data_type |->
                      IF all_integer(idx) /\ has_values(idx) THEN "integer"
                      ELSE IF all_numeric(idx) /\ has_values(idx)
                           THEN "number"
                           ELSE "string",
                  nullable |-> TRUE]],
         reader |-> SubSeq(reader, Len(sample) + 1, Len(reader))]

\* CsvExtractor::extract, from the headers on: the schema is inferred from
\* the reader, then the records left in the same reader are counted
CsvExtract ==
    /\ csv_output = None
    /\ LET headers == csv_file.headers
           inferred == infer_schema(csv_file.records, headers)
           row_count == Len(inferred.reader)
       IN  csv_output' = Some([headers |-> headers,
                               row_count |-> row_count,
                               schema |-> inferred.schema])
    /\ UNCHANGED csv_file

\* the largest number of data records of a file
MaxRows == 101

\* the files: one or two columns; no record, one, two, one less than the
\* sample, the sample, or more; the first `first` records hold the field
\* a in every column, the others the field b
InitCsv ==
    /\ fs = EmptyMap
    /\ cache = EmptyMap
    /\ lastCall = NoCall
    /\ seen = EmptyMap
    /\ hashedAt = EmptyMap
    /\ edits = 0
    /\ faults = 0
    /\ callers = {}
    /\ IndexerInit
    /\ NoIndexFile
    /\ NoQuery
    /\ NoGroups
    /\ csv_file \in
          {[headers |-> [i \in 1..cols |-> <<"h", i>>],
            records |-> [r \in 1..rows |->
                            [i \in 1..cols |-> IF r <= first THEN a ELSE b]]] :
            cols \in 1..2,
            rows \in {0, 1, 2, SampleRows - 1, SampleRows, MaxRows},
            first \in {0, 1, SampleRows},
            a \in {"", "7", "1.5", "x"},
            b \in {"", "7", "1.5", "x"}}
    /\ csv_output = None
    /\ NoLocks

NextCsv ==
    /\ CsvExtract
    /\ UNCHANGED <<dvars, ivars, hvars, avars, scans, fvars, qvars, gvars,
                   lvars>>

SpecCsv == InitCsv /\ [][NextCsv]_vars

\* ------------------------------------------------------------------------
\* index_directory, mutex by mutex
\* ------------------------------------------------------------------------
\* The calls of index_directory on one MasterIndexer with every lock() and
\* every release of a guard as a step of its own.  A thread is <<t, 0>>,
\* the thread that runs the call t, or <<t, p>>, the task of the parallel
\* iterator of call t for the path p.  The mutexes are the detector's, the
\* writer's and, for each call, the one of its by_category map.  The tree
\* holds plain files and fits in one chunk of BATCH_SIZE paths.
Threads == Callers \X (0..NumPaths)

\* mutant: lock() does not wait for the mutex to be free
lock_free(th, mx) ==
    held' = [held EXCEPT ![mx] = @ \cup {th}]

\* parking_lot::Mutex::lock: returns the guard once no thread holds one
lock(th, mx) ==
    /\ held[mx] = {}
    /\ held' = [held EXCEPT ![mx] = @ \cup {th}]

\* the guard is dropped
unlock(th, mx) ==
    held' = [held EXCEPT ![mx] = @ \ {th}]

\* index_directory, steps 1 and 2: the scan, then detect_changes under the
\* detector's lock, path by path: detect_change reads the metadata and the
\* cache and hashes the file ("detect"), then writes the cache ("insert");
\* an error drops the guard and returns.  At the end the guard is dropped
\* and the parallel iterator gets one task per retained path of the first
\* chunk.
ScanDetect(t) ==
    LET th == <<t, 0>>
        mx == <<"change_detector", "self">>
    IN  /\ \/ /\ lpc[th] = "idle"
              /\ \E ok \in BOOLEAN :
                     /\ Fault(ok)
                     /\ files' = [files EXCEPT ![t] =
                                     IF ok THEN scan_directory(fs) ELSE <<>>]
                     /\ lpc' = [lpc EXCEPT ![th] =
                                   IF ok THEN "lock_detector" ELSE "returned"]
                     /\ result' = [result EXCEPT ![t] =
                                      IF ok THEN "none" ELSE "ErrScan"]
              /\ UNCHANGED <<cache, changes, held, pending, cur>>
           \/ /\ lpc[th] = "lock_detector"
              /\ lock(th, mx)
              /\ lpc' = [lpc EXCEPT ![th] = "detect"]
              /\ UNCHANGED <<cache, faults, files, changes, result, pending,
                             cur>>
           \/ /\ lpc[th] = "detect"
              /\ Len(changes[t]) < Len(files[t])
              /\ \E metaOk \in BOOLEAN, hashOk \in BOOLEAN :
                     LET p == files[t][Len(changes[t]) + 1]
                         r == detect_change(cache, fs, p, metaOk, hashOk)
                     IN  /\ Fault(r.change # "Err")
                         /\ (metaOk /\ hashOk) \/ r.change = "Err"
                         /\ IF r.change = "Err"
                            THEN /\ unlock(th, mx)
                                 /\ lpc' = [lpc EXCEPT ![th] = "returned"]
                                 /\ result' = [result EXCEPT ![t] = "ErrDetect"]
                                 /\ UNCHANGED pending
                            ELSE /\ pending' = [pending EXCEPT ![t] =
                                       Some([path |-> p,
                                             change |-> r.change,
                                             hashed |-> r.hashed,
                                             write |->
                                                 IF p \in DOMAIN r.cache
                                                    /\ r.cache # cache
                                                 THEN Some(r.cache[p])
                                                 ELSE None,
                                             remove |->
                                                 p \in DOMAIN cache
                                                 /\ p \notin DOMAIN r.cache])]
                                 /\ lpc' = [lpc EXCEPT ![th] = "insert"]
                                 /\ UNCHANGED <<held, result>>
              /\ UNCHANGED <<cache, files, changes, cur>>
           \/ /\ lpc[th] = "insert"
              /\ LET d == CHOOSE x \in pending[t] : TRUE
                 IN  /\ cache' = IF d.remove THEN Remove(cache, d.path)
                                 ELSE IF d.write # None
                                      THEN Insert(cache, d.path,
                                                  CHOOSE s \in d.write : TRUE)
                                      ELSE cache
                     /\ changes' = [changes EXCEPT ![t] =
                                       Append(@, [path |-> d.path,
                                                  change |-> d.change,
                                                  hashed |-> d.hashed])]
              /\ lpc' = [lpc EXCEPT ![th] = "detect"]
              /\ UNCHANGED <<faults, files, result, held, pending, cur>>
           \/ /\ lpc[th] = "detect"
              /\ Len(changes[t]) = Len(files[t])
              /\ unlock(th, mx)
              /\ cur' = [cur EXCEPT ![t] = 1]
              /\ lpc' = [x \in Threads |->
                            IF x = th THEN "par_iter"
                            ELSE IF x[1] = t
                                    /\ x[2] \in Range(files_to_index(changes[t]))
                                    /\ BatchOf(changes[t], x[2]) = 1
                                 THEN "start"
                                 ELSE lpc[x]]
              /\ UNCHANGED <<cache, faults, files, changes, result, pending>>
        /\ UNCHANGED <<fs, lastCall, seen, hashedAt, edits, callers, pc,
                       w, wdoc, rpc, snap, hvars, avars, scans, fvars,
                       qvars, gvars, cvars, loaded,
                       processed, buffer, committed, saved, by_category>>

\* one task of batch.par_iter().for_each: the size check and index_file up
\* to the document built by InvertedIndex::add_document ("start": reads of
\* the file only), the writer's lock and IndexWriter::add_document, then
\* the counters and the by_category map under its lock
Worker(t, p) ==
    LET th == <<t, p>>
        writer == <<"writer", "self">>
        by_cat == <<"by_category", t>>
    IN  /\ \/ /\ lpc[th] = "start"
              /\ \E ioOk \in BOOLEAN :
                     /\ Fault(ioOk)
                     /\ ioOk \/ ~TooLarge(Size(fs[p].content))
                     /\ lpc' = [lpc EXCEPT ![th] =
                                   IF TooLarge(Size(fs[p].content)) \/ ~ioOk
                                   THEN "done" ELSE "lock_writer"]
              /\ UNCHANGED <<held, buffer, processed, by_category>>
           \/ /\ lpc[th] = "lock_writer"
              /\ lock(th, writer)
              /\ lpc' = [lpc EXCEPT ![th] = "add_document"]
              /\ UNCHANGED <<faults, buffer, processed, by_category>>
           \/ /\ lpc[th] = "add_document"
              /\ \E ok \in BOOLEAN :
                     /\ Fault(ok)
                     /\ buffer' = IF ok
                                  THEN add_document(buffer, FileDocument(p, fs[p]))
                                  ELSE buffer
                     /\ processed' = [processed EXCEPT ![t] =
                                         IF ok THEN @ + 1 ELSE @]
                     /\ lpc' = [lpc EXCEPT ![th] =
                                   IF ok THEN "lock_by_category" ELSE "done"]
              /\ unlock(th, writer)
              /\ UNCHANGED by_category
           \/ /\ lpc[th] = "lock_by_category"
              /\ lock(th, by_cat)
              /\ lpc' = [lpc EXCEPT ![th] = "by_category"]
              /\ UNCHANGED <<faults, buffer, processed, by_category>>
           \/ /\ lpc[th] = "by_category"
              /\ by_category' = [by_category EXCEPT ![t] = @ + 1]
              /\ unlock(th, by_cat)
              /\ lpc' = [lpc EXCEPT ![th] = "done"]
              /\ UNCHANGED <<faults, buffer, processed>>
        /\ UNCHANGED <<fs, lastCall, seen, hashedAt, edits, callers, pc,
                       cur, w, wdoc, rpc, snap, hvars, avars, scans, fvars,
                       qvars, gvars, cvars, loaded,
                       cache, files, changes, result, committed, saved,
                       pending>>

\* index_directory, steps 3 to 5 on the calling thread: the parallel
\* iterator returns when every task has, then the commit of the chunk (an
\* error is logged) and the tasks of the next chunk, the final commit (an error returns), the save of the
\* cache under the detector's lock (an error returns) and the clone of the
\* by_category map under its lock
CommitSave(t) ==
    LET th == <<t, 0>>
        writer == <<"writer", "self">>
        more == cur[t] < NumBatches(changes[t])
    IN  /\ \/ /\ lpc[th] = "par_iter"
              /\ \A p \in Paths : lpc[<<t, p>>] \in {"none", "done"}
              /\ lpc' = [lpc EXCEPT ![th] =
                            IF files_to_index(changes[t]) = <<>>
                            THEN "lock_final" ELSE "lock_batch"]
              /\ UNCHANGED <<faults, result, held, buffer, committed, saved,
                             cur>>
           \/ /\ lpc[th] \in {"lock_batch", "lock_final"}
              /\ lock(th, writer)
              /\ lpc' = [lpc EXCEPT ![th] =
                            IF lpc[th] = "lock_batch" THEN "commit_batch"
                            ELSE "commit_final"]
              /\ UNCHANGED <<faults, result, buffer, committed, saved, cur>>
           \/ /\ lpc[th] \in {"commit_batch", "commit_final"}
              /\ \E ok \in BOOLEAN, keep \in BOOLEAN :
                     /\ Fault(ok)
                     /\ ~ok \/ keep
                     /\ committed' = IF ok THEN commit(committed, buffer)
                                     ELSE committed
                     /\ buffer' = IF ok \/ ~keep THEN EmptyBag ELSE buffer
                     /\ lpc' = [x \in Threads |->
                                   IF x = th
                                   THEN IF lpc[th] = "commit_final"
                                        THEN IF ok THEN "lock_save"
                                             ELSE "returned"
                                        ELSE IF more THEN "par_iter"
                                             ELSE "lock_final"
                                   ELSE IF lpc[th] = "commit_batch" /\ more
                                           /\ x[1] = t
                                           /\ x[2] \in Range(files_to_index(
                                                              changes[t]))
                                           /\ BatchOf(changes[t], x[2])
                                                  = cur[t] + 1
                                        THEN "start"
                                        ELSE lpc[x]]
                     /\ cur' = [cur EXCEPT ![t] =
                                   IF lpc[th] = "commit_batch" /\ more
                                   THEN @ + 1 ELSE @]
                     /\ result' = [result EXCEPT ![t] =
                                      IF lpc[th] = "commit_final" /\ ~ok
                                      THEN "ErrCommit" ELSE @]
              /\ unlock(th, writer)
              /\ UNCHANGED saved
           \/ /\ lpc[th] = "lock_save"
              /\ lock(th, <<"change_detector", "self">>)
              /\ lpc' = [lpc EXCEPT ![th] = "save"]
              /\ UNCHANGED <<faults, result, buffer, committed, saved, cur>>
           \/ /\ lpc[th] = "save"
              /\ \E ok \in BOOLEAN :
                     /\ Fault(ok)
                     /\ saved' = IF ok THEN cache ELSE saved
                     /\ lpc' = [lpc EXCEPT ![th] =
                                   IF ok THEN "lock_stats" ELSE "returned"]
                     /\ result' = [result EXCEPT ![t] =
                                      IF ok THEN @ ELSE "ErrSave"]
              /\ unlock(th, <<"change_detector", "self">>)
              /\ UNCHANGED <<buffer, committed, cur>>
           \/ /\ lpc[th] = "lock_stats"
              /\ lock(th, <<"by_category", t>>)
              /\ lpc' = [lpc EXCEPT ![th] = "stats"]
              /\ UNCHANGED <<faults, result, buffer, committed, saved, cur>>
           \/ /\ lpc[th] = "stats"
              /\ unlock(th, <<"by_category", t>>)
              /\ lpc' = [lpc EXCEPT ![th] = "returned"]
              /\ result' = [result EXCEPT ![t] = "Ok"]
              /\ UNCHANGED <<faults, buffer, committed, saved, cur>>
        /\ UNCHANGED <<fs, lastCall, seen, hashedAt, edits, callers, pc,
                       w, wdoc, rpc, snap, hvars, avars, scans, fvars,
                       qvars, gvars, cvars, loaded,
                       cache, files, changes, processed, pending, by_category>>

\* a MasterIndexer that loaded a cache with no entry, or with an entry of
\* an older or of the present state of the first file; two commands call
\* index_directory on the same tree of plain files
InitLocks ==
    /\ fs \in {[p \in Paths |-> File(IF p = 1 THEN c ELSE "a", 0)] :
                  c \in {"a", "big"}}
    /\ loaded \in {EmptyMap} \cup {[p \in {1} |-> FileState(File(c, m))] :
                                      c \in {"a", "b"}, m \in Times}
    /\ cache = loaded
    /\ saved = loaded
    /\ lastCall = NoCall
    /\ seen = EmptyMap
    /\ hashedAt = EmptyMap
    /\ edits = 0
    /\ faults = 0
    /\ callers = Callers
    /\ pc = [t \in Callers |-> "idle"]
    /\ files = [t \in Callers |-> <<>>]
    /\ changes = [t \in Callers |-> <<>>]
    /\ cur = [t \in Callers |-> 0]
    /\ w = [t \in Callers |-> [p \in AllPaths |-> "none"]]
    /\ wdoc = [t \in Callers |-> [p \in AllPaths |-> NoDoc]]
    /\ processed = [t \in Callers |-> 0]
    /\ result = [t \in Callers |-> "none"]
    /\ buffer = EmptyBag
    /\ committed = EmptyBag
    /\ rpc = "idle"
    /\ snap = EmptyBag
    /\ quiet = FALSE
    /\ prev = "none"
    /\ follow = [t \in Callers |-> "none"]
    /\ unpacked = [t \in Callers |-> FALSE]
    /\ addedIds = {}
    /\ xdirs = {}
    /\ depth = [p \in AllPaths |-> 0]
    /\ deepest = -1
    /\ lastUnpack = NoUnpack
    /\ scans = 0
    /\ NoIndexFile
    /\ NoQuery
    /\ NoGroups
    /\ NoCsv
    /\ lpc = [th \in Threads |-> IF th[2] = 0 THEN "idle" ELSE "none"]
    /\ held = [mx \in {<<"change_detector", "self">>, <<"writer", "self">>}
                      \cup {<<"by_category", t>> : t \in Callers} |-> {}]
    /\ pending = [t \in Callers |-> None]
    /\ by_category = [t \in Callers |-> 0]

NextLocks ==
    \/ \E t \in Callers : ScanDetect(t)
    \/ \E t \in Callers, p \in Paths : Worker(t, p)
    \/ \E t \in Callers : CommitSave(t)

SpecLocks == InitLocks /\ [][NextLocks]_vars

\* every thread that can take a step eventually takes one: the threads are
\* OS threads, and a thread waiting in lock() gets the mutex once it is
\* free (each thread locks a bounded number of times)
FairLocks ==
    /\ SpecLocks
    /\ \A t \in Callers :
           /\ WF_vars(ScanDetect(t))
           /\ WF_vars(CommitSave(t))
           /\ \A p \in Paths : WF_vars(Worker(t, p))

\* ------------------------------------------------------------------------
\* Properties of the change detector (checked under SpecDetector)
\* ------------------------------------------------------------------------
SameSizeMtime(c, f, p) ==
    c[p].size = Size(f[p].content) /\ c[p].modified = f[p].mtime

OthersKept(c, d, p) ==
    /\ DOMAIN d \ {p} = DOMAIN c \ {p}
    /\ \A q \in DOMAIN c \ {p} : d[q] = c[q]

\* C1: detect_change classifies as the algorithm of the specification says,
\* for every combination of (path exists, regular file, cache entry,
\* size/mtime equal, hash equal), in every reachable cache and tree:
\* missing + entry -> Deleted, entry removed; missing, no entry -> Unchanged;
\* not a regular file -> Unchanged; file, no entry -> Added, entry inserted;
\* equal size and mtime -> Unchanged without hashing; differing but equal
\* hash -> Unchanged, size/mtime of the entry updated; hash differs ->
\* Modified, entry replaced.  (The cases that read the file are taken with
\* the reads succeeding.)
C1_DetectChangeClassifies ==
    \A p \in Paths, metaOk \in BOOLEAN, hashOk \in BOOLEAN :
        LET r == detect_change(cache, fs, p, metaOk, hashOk)
            entry == p \in DOMAIN cache
        IN  /\ OthersKept(cache, r.cache, p)
            /\ (~Exists(fs, p) /\ entry) =>
                   r.change = "Deleted" /\ p \notin DOMAIN r.cache
            /\ (~Exists(fs, p) /\ ~entry) =>
                   r.change = "Unchanged" /\ r.cache = cache
            /\ (IsDir(fs, p) /\ metaOk) =>
                   r.change = "Unchanged" /\ r.cache = cache /\ ~r.hashed
            /\ (IsFile(fs, p) /\ metaOk /\ ~entry /\ hashOk) =>
                   /\ r.change = "Added"
                   /\ p \in DOMAIN r.cache
                   /\ r.cache[p] = FileState(fs[p])
            /\ (IsFile(fs, p) /\ metaOk /\ entry) =>
                   IF SameSizeMtime(cache, fs, p)
                   THEN r.change = "Unchanged" /\ ~r.hashed /\ r.cache = cache
                   ELSE hashOk =>
                        IF cache[p].hash = Sha256(fs[p].content)
                        THEN /\ r.change = "Unchanged"
                             /\ r.hashed
                             /\ r.cache[p].size = Size(fs[p].content)
                             /\ r.cache[p].modified = fs[p].mtime
                             /\ r.cache[p].hash = cache[p].hash
                        ELSE /\ r.change = "Modified"
                             /\ r.cache[p] = FileState(fs[p])

\* witness of C1: the last call suppressed an mtime bump by hashing and
\* refreshed the entry
C1_Witness ==
    /\ lastCall.change = "Unchanged"
    /\ lastCall.hashed
    /\ IsFile(fs, lastCall.path)
    /\ cache[lastCall.path] = FileState(fs[lastCall.path])

\* C2 as stated: the entry of a path equals the (size, mtime, sha256) of the
\* file as it was at the last detect_change call on the path that did not
\* return Deleted; no entry after Deleted.
C2_EntryIsLastObserved ==
    cache = seen

\* C2 amended: the entry of a path equals the (size, mtime, sha256) of the
\* file as it was at the last detect_change call on the path that hashed the
\* file (Added, Modified, or Unchanged after a hash comparison); a call that
\* returns Unchanged without hashing or fails leaves the entry as it was, and
\* Deleted removes it.  One entry per path at most.
C2_EntryIsLastHashed ==
    /\ cache = hashedAt
    /\ DOMAIN cache \subseteq Paths

\* witness of C2: an entry refreshed by an mtime bump, and a file whose
\* content changed under an equal size and mtime after it was cached
C2_Witness ==
    \E p \in DOMAIN cache :
        /\ IsFile(fs, p)
        /\ lastCall.path = p
        /\ lastCall.change = "Unchanged"
        /\ cache[p].hash # Sha256(fs[p].content)

\* ------------------------------------------------------------------------
\* Properties of index_directory (checked under SpecIndexer)
\* ------------------------------------------------------------------------
\* caller t is back from an index_directory call that returned IndexStats,
\* and the tree has not been edited since that call began
Returned(t) == pc[t] = "idle" /\ result[t] = "Ok" /\ quiet

C4_OneDocumentPerId ==
    \A p \in AllPaths :
        /\ DocsWithId(committed, make_doc_id(p)) <= 1
        /\ \A d \in BagToSet(committed) :
               (d.id = make_doc_id(p) /\ buffer = EmptyBag /\ p \in DOMAIN cache
                    /\ \A t \in Callers : Returned(t))
                   => d.hash = cache[p].hash

\* C5: after a run over a tree from which a previously indexed file has
\* been removed, the file has no FileState in the cache and no document in
\* the index.
C5_DeletedFileIsPurged ==
    \A t \in Callers :
        Returned(t) =>
            \A p \in AllPaths :
                ~Exists(fs, p) =>
                    /\ p \notin DOMAIN cache
                    /\ DocsWithId(committed, make_doc_id(p)) = 0

\* no operation of the index deletes a document
deletedIds == {}

\* C6: document_count() equals the number of unique ids added minus the
\* number of unique ids deleted (committed only changes at a commit, so
\* this is the count after any commit).
C6_CountIsUniqueIds ==
    num_docs(searcher(committed, buffer)) = Cardinality(addedIds \ deletedIds)

\* C10: index_directory returns an error only when the cache cannot be
\* written at scan end (the index directory is opened when the project is,
\* not by index_directory).
C10_OnlyCacheSaveIsFatal ==
    \A t \in Callers : result[t] \in {"none", "Ok", "ErrSave"}

\* ------------------------------------------------------------------------
\* Properties of index_directory with queries (checked under SpecSearch)
\* ------------------------------------------------------------------------
\* C7: within a run the committed index is monotonic.  In every step: no
\* committed document disappears; the committed documents change only by
\* the whole writer buffer being published (a commit), so a document added
\* is invisible until then and visible after; a reader that is opened sees
\* exactly the committed documents of that moment, and keeps seeing them
\* while commits go on.
C7_CommittedMonotonic ==
    [][ /\ committed \sqsubseteq committed'
        /\ committed' # committed =>
               (committed' = committed (+) buffer /\ buffer' = EmptyBag)
        /\ (rpc = "idle" /\ rpc' = "open") => snap' = committed
        /\ (rpc = "open" /\ rpc' = "open") => snap' = snap
      ]_vars

\* witness of C7: a reader opened before a commit still holds the
\* pre-commit snapshot while another document waits in the buffer
C7_Witness ==
    /\ rpc = "open"
    /\ snap # committed
    /\ committed # EmptyBag
    /\ buffer # EmptyBag

RetainedPaths(t) == Range(files_to_index(changes[t]))

C9_NoInterleaving ==
    ~(rpc = "open" /\ \E t \in Callers : pc[t] # "idle")

\* C9 amended: a query command may execute between the steps of a running
\* index_directory; it then reads a snapshot of the committed index: every
\* document it sees has been committed, none comes from the writer's
\* uncommitted buffer.
C9_InterleavedReaderSeesCommitted ==
    rpc = "open" => snap \sqsubseteq committed

\* witness of C9: a reader is open in the middle of a run, while the writer
\* holds uncommitted documents
C9_Witness ==
    /\ rpc = "open"
    /\ \E t \in Callers : pc[t] = "batch"
    /\ buffer # EmptyBag

\* ------------------------------------------------------------------------
\* Resource limits and the evidence tree
\* ------------------------------------------------------------------------
\* the workers of caller t that added a document
AddedPaths(t) == {p \in AllPaths : w[t][p] \in {"added", "visible", "lost"}}

C16_EvidenceReadOnly ==
    [][fs' = fs /\ xdirs' = xdirs]_vars

\* ------------------------------------------------------------------------
\* Properties of ArchiveExtractor::unpack (checked under SpecUnpack)
\* ------------------------------------------------------------------------
\* C13: for every tree and every call, unpack returns an error and leaves
\* the tree and the extraction directories as they were when nesting_level
\* >= max_nesting_level or when the archive is larger than
\* max_archive_size; and a zip archive within the size limit passed at
\* nesting_level = max_nesting_level - 1 is unpacked: the call returns Ok,
\* the extraction directory exists and holds the archive's entry.
C13_UnpackLimits ==
    \A p \in AllPaths, l \in Levels :
        LET r == unpack(fs, xdirs, p, l)
            d == UnpackDest(p)
        IN  /\ (l >= max_nesting_level
                   \/ (IsFile(fs, p) /\ Size(fs[p].content) > max_archive_size))
                  => (~r.ok /\ r.fs = fs /\ r.dirs = xdirs)
            /\ (l = max_nesting_level - 1
                   /\ IsFile(fs, p) /\ IsZip(fs[p].content)
                   /\ Size(fs[p].content) <= max_archive_size
                   /\ d \in AllPaths /\ ~IsDir(fs, d))
                  => /\ r.ok
                     /\ p \in r.dirs
                     /\ IsFile(r.fs, d)
                     /\ r.fs[d].content = Inner(fs[p].content)

\* witness of C13: an archive was unpacked at max_nesting_level - 1, and
\* the tree holds an archive above max_archive_size
C13_Witness ==
    /\ lastUnpack.ok
    /\ lastUnpack.made
    /\ lastUnpack.level = max_nesting_level - 1
    /\ \E q \in DOMAIN fs : IsFile(fs, q) /\ Size(fs[q].content) > max_archive_size

\* ------------------------------------------------------------------------
\* Properties of nested archives (checked under SpecNested)
\* ------------------------------------------------------------------------
\* the evidence is nested.zip holding nested2.zip holding leaf.txt, and no
\* operation has failed: nested.zip is path 1, nested2.zip is unpacked to
\* path 2 and leaf.txt to path 3
NestedZip == IsFile(fs, 1) /\ fs[1].content = "zipzip" /\ faults = 0

Indexed(p) == make_doc_id(p) \in IdsOf(committed)

\* C14 as stated: after the first scan the top level is unpacked; after
\* the second scan the inner zip is unpacked and leaf.txt is indexed.
C14_LeafIndexedAfterTwoScans ==
    NestedZip =>
        /\ scans >= 1 => IsFile(fs, 2)
        /\ scans >= 2 => (IsFile(fs, 3) /\ Indexed(3))

\* C14 amended: after the first scan nested.zip is indexed and unpacked;
\* after the second scan nested2.zip is indexed and unpacked; after the
\* third scan leaf.txt is indexed.
C14_LeafIndexedAfterThreeScans ==
    NestedZip =>
        /\ scans >= 1 => (Indexed(1) /\ IsFile(fs, 2) /\ fs[2].content = "zip")
        /\ scans >= 2 => (Indexed(2) /\ IsFile(fs, 3) /\ fs[3].content = "a")
        /\ scans >= 3 => Indexed(3)

\* witness of C14: three scans of nested.zip have returned and leaf.txt is
\* indexed
C14_Witness ==
    /\ NestedZip
    /\ scans = 3
    /\ Indexed(3)
    /\ \A t \in Callers : pc[t] = "idle"

\* C15: whatever the number of scans, the indexer never unpacks an archive
\* that sits max_nesting_level or more levels deep inside other archives.
C15_UnpackDepthBounded ==
    deepest < max_nesting_level

C17_EmptyFileIsText ==
    (ipc = "done" /\ input.bytes = <<>>) =>
        \A d \in file_doc :
            /\ d.category = "Text"
            /\ d.mime_type = "text/plain"
            /\ d.preview = Some(<<>>)

\* C18: the category the detector returns is the category from_mime gives
\* to the mime type the detector returns.
C18_DetectorAgreesWithFromMime ==
    \A d \in detected : from_mime(d.mime_type) = d.category

\* C19: the preview of every document given to add_document has at most
\* 500 characters.
C19_PreviewAtMost500 ==
    \A d \in file_doc : \A p \in d.preview : Len(p) <= PreviewLimit

\* ------------------------------------------------------------------------
\* Claims about the query planner
\* ------------------------------------------------------------------------
\* C20: a Combined query that succeeds returns the hits of its metadata
\* subquery whose id occurs among the hits of its fulltext subquery, each
\* once per occurrence and in the order of the metadata subquery, and total
\* is the number of hits returned.
C20_CombinedIsIntersection ==
    \A q \in query : \A r \in qresult :
        (q.type = "Combined" /\ r.ok) =>
            LET a == subresults[1].hits
                b == subresults[2].hits
                kept == {i \in DOMAIN a : \E k \in DOMAIN b : b[k].id = a[i].id}
                rank(i) == Cardinality({j \in kept : j <= i})
            IN  /\ Len(r.hits) = Cardinality(kept)
                /\ \A i \in kept : r.hits[rank(i)] = a[i]
                /\ r.total = Len(r.hits)

\* a Combined query returned two hits of different files, in the order of
\* the metadata subquery, that the fulltext subquery ranks the other way
\* round
C20_Witness ==
    \E q \in query : \E r \in qresult :
        /\ q.type = "Combined"
        /\ r.ok
        /\ Len(r.hits) = 2
        /\ r.hits[1].id # r.hits[2].id
        /\ Len(subresults[2].hits) = 2
        /\ subresults[2].hits[1].id = r.hits[2].id
        /\ subresults[2].hits[1].score # r.hits[2].score
        /\ subresults[1].hits = r.hits

\* C21: the hits of a Metadata query that succeeds are documents of the
\* index whose size is at least min_size and at most max_size, for each of
\* the two bounds that is given.
C21_SizeBoundsHonored ==
    \A q \in query : \A r \in qresult :
        (q.type = "Metadata" /\ r.ok) =>
            \A k \in DOMAIN r.hits :
                \A d \in BagToSet(committed) :
                    d.id = r.hits[k].id =>
                    /\ \A lo \in q.min_size : d.size >= lo
                    /\ \A hi \in q.max_size : d.size <= hi

\* ------------------------------------------------------------------------
\* Claims about the groups of the auxiliary store
\* ------------------------------------------------------------------------
\* C22: get_groups does not fail and, for every group that was created and
\* not deleted since, lists exactly one group of that name and that color.
C22_GroupsRoundTrip ==
    \A l \in listed :
        /\ l.ok
        /\ \A g \in live :
               LET group == [name |-> g[1], color |-> g[2], content |-> <<>>]
               IN  CopiesIn(group, l.result) = 1

\* C23: get_groups lists no group of the name and color of a group that
\* was deleted and not created again since.
C23_DeletedGroupNotListed ==
    \A l \in listed : \A g \in dropped :
        l.ok => CopiesIn([name |-> g[1], color |-> g[2], content |-> <<>>],
                         l.result) = 0

\* C29: a get_groups call leaves the set of stored trees as it was, and
\* returns what the get_groups call right before it returned.
C29_GetGroupsIsPureRead ==
    [][listed' # None =>
           /\ trees' = trees
           /\ listed # None => listed' = listed]_vars

\* ------------------------------------------------------------------------
\* Claims about what the query commands write
\* ------------------------------------------------------------------------
\* C24: a step of a query command (the search of QueryPlanner::execute,
\* the count of stats, extract_deep: the steps that change rpc) leaves the
\* committed documents, the writer's buffer and the change-detector cache
\* as they were.
C24_QueriesMutateNothing ==
    [][rpc' # rpc =>
           /\ committed' = committed
           /\ buffer' = buffer
           /\ cache' = cache]_vars

\* a query command is in progress on an index that holds committed
\* documents while the writer holds an uncommitted one and the cache an
\* entry
C24_Witness ==
    /\ rpc # "idle"
    /\ committed # EmptyBag
    /\ buffer # EmptyBag
    /\ cache # EmptyMap

\* ------------------------------------------------------------------------
\* Claims about the CSV extractor
\* ------------------------------------------------------------------------
\* C25: row_count is the number of data records of the file; a file with
\* no data record has row_count 0 and every column of type "string".
C25_RowCountIsTotal ==
    \A out \in csv_output :
        /\ out.row_count = Len(csv_file.records)
        /\ csv_file.records = <<>> =>
               \A idx \in DOMAIN out.schema :
                   out.schema[idx].data_type = "string"

\* ------------------------------------------------------------------------
\* Claims about the mutexes of index_directory (checked under SpecLocks)
\* ------------------------------------------------------------------------
\* C26: the threads that are inside IndexWriter::add_document or
\* IndexWriter::commit are exactly the threads that hold the writer's
\* mutex, and there is at most one: the mutex is held for those two calls
\* only (never by a task that is still reading its file), two writer
\* operations never overlap and no commit runs during an add_document.
C26_WriterMutexSerializes ==
    LET inWriter == {th \in Threads :
                        lpc[th] \in {"add_document", "commit_batch",
                                     "commit_final"}}
    IN  /\ held[<<"writer", "self">>] = inWriter
        /\ Cardinality(inWriter) <= 1

\* a task is inside add_document while the other call, which retained no
\* file, waits for the writer to make its final commit
C26_Witness ==
    \E th \in Threads, t \in Callers :
        /\ lpc[th] = "add_document"
        /\ th \in held[<<"writer", "self">>]
        /\ t # th[1]
        /\ lpc[<<t, 0>>] = "lock_final"

C28_NoDeadlockEveryCallSaves ==
    /\ [](\A th \in Threads :
             Cardinality({mx \in DOMAIN held : th \in held[mx]}) <= 1)
    /\ \A t \in Callers : <>(lpc[<<t, 0>>] = "save")

\* ------------------------------------------------------------------------
\* Claim about the cache write of change detection (checked under
\* SpecIndexer)
\* ------------------------------------------------------------------------
\* C30: a file that index_directory classified Added or Modified has its
\* FileState, as read by the detection, in the in-memory cache from the
\* detection on, whatever its worker and the commits do (skipped, failed,
\* added, visible or lost); and a run that finds a regular file equal to
\* its cache entry classifies it Unchanged and hands it to no worker.
C30_CacheWrittenAtDetection ==
    /\ [](\A t \in callers :
             \A p \in Range(files_to_index(changes[t])) :
                 /\ p \in DOMAIN cache
                 /\ p \in DOMAIN seen
                 /\ cache[p] = seen[p])
    /\ [][\A t \in callers :
             pc[t] = "scanned" /\ pc'[t] \in {"batch", "final"} =>
                 \A p \in Range(files[t]) :
                     (p \in DOMAIN cache /\ cache[p] = FileState(fs[p])) =>
                         /\ \E i \in DOMAIN changes'[t] :
                                changes'[t][i].path = p
                                /\ changes'[t][i].change = "Unchanged"
                         /\ p \notin Range(files_to_index(changes'[t]))
                         /\ w'[t][p] = "none"]_vars
    /\ [][\A t \in callers, p \in AllPaths :
             w'[t][p] \notin {"none", "pending", w[t][p]} =>
                 p \in Range(files_to_index(changes[t]))]_vars

\* a run that follows a successful run with no edit in between has
\* classified Unchanged a file that is too large to be indexed: the earlier
\* classification wrote its entry, the file was skipped and has no document
C30_Witness ==
    \E t \in callers, p \in Paths :
        /\ follow[t] = "Ok"
        /\ pc[t] = "final"
        /\ IsFile(fs, p)
        /\ TooLarge(Size(fs[p].content))
        /\ \E i \in DOMAIN changes[t] :
               changes[t][i].path = p /\ changes[t][i].change = "Unchanged"
        /\ cache[p] = FileState(fs[p])
        /\ DocsWithId(buffer (+) committed, make_doc_id(p)) = 0

====
